---- MODULE Spec2Model ----
(***************************************************************************)
(* Model of MultiServerClient (src/src/multi_server_client/                *)
(* multi_server_client.py): the registry that connects to several MCP      *)
(* servers, records what each one advertises, merges the listings and      *)
(* routes tool calls, resource reads and prompt fetches.                   *)
(*                                                                         *)
(* Strings that the code parses (server names, URIs) are sequences of      *)
(* one-character strings over Chars.  Tool and prompt names are never      *)
(* parsed and stay atomic.  Optional[T] is a sequence of length 0 (None)   *)
(* or 1 (a value).                                                         *)
(***************************************************************************)
EXTENDS Naturals, Sequences, FiniteSets

VARIABLES
    sessions,          \* self.sessions: server name -> handle of its ClientSession
    capabilities,      \* self.capabilities, in dict insertion order
    tool_to_server,    \* self.tool_to_server
    prompt_to_server,  \* self.prompt_to_server
    stack,             \* the AsyncExitStack: the contexts entered, oldest first (a
                       \* context is named by its place in it)
    pc,                \* where connect_all stands
    pending,           \* servers of config.mcpServers the loop has not reached yet
    server_name,       \* _connect_server's server_name (meaningful while pc # "idle")
    caps,              \* _connect_server's local capabilities object
    connect_result,    \* how the last connect_all ended
    env,               \* what the environment has done in this connect_all
    focus,             \* the capability kinds this behaviour exercises
    budget,            \* the connect_all calls the owner of the registry still makes
    released,          \* the contexts the AsyncExitStack has closed on exit, in order
    util,              \* the last call of a function of mcp_multi_server.utils
    last               \* the last public call and what came of it

vars == <<sessions, capabilities, tool_to_server, prompt_to_server, stack, pc,
          pending, server_name, caps, connect_result, env, focus, budget, released,
          util, last>>

registry == <<sessions, capabilities, tool_to_server, prompt_to_server>>

(***************************************************************************)
(* Bounds                                                                  *)
(***************************************************************************)
MaxServers == 2     \* servers in one configuration
MaxNameLen == 1     \* characters in a server name
MaxUriLen == 2      \* characters in a URI a server advertises
MaxReqLen == 2      \* characters in a URI a caller passes to read_resource
MaxCaps == 2        \* entries in one listing of one server
MaxEntries == 2     \* entries all servers advertise in one connect_all
MaxDegraded == 1    \* servers with a failing capability query in one connect_all
MaxRuns == 1        \* connect_all invocations
MaxReruns == 2      \* connect_all invocations where the registry is connected again
MaxInFlight == 2    \* calls that wait for the answer of their session at one time
MaxKinds == 1       \* capability kinds that carry entries and are called in one behaviour
MaxUtilLen == 4     \* characters in a string passed to parse_namespace_uri
MaxPrefixLen == 1   \* characters in a server name passed to format_namespace_uri
MaxSuffixLen == 2   \* characters in a URI passed to format_namespace_uri
MaxTools == 2       \* tools passed to mcp_tools_to_openai_format
MaxPieces == 3      \* characters and placeholders in a URI template
MaxVars == 2        \* entries of the mapping passed to substitute_template_variables

(***************************************************************************)
(* Strings and Optional                                                    *)
(***************************************************************************)
Lower == {"a"}
Upper == {"A"}
Letters == Lower \cup Upper
Colon == ":"
Chars == Letters \cup {Colon}
NameChars == Lower \cup {Colon}

None == <<>>
Some(x) == <<x>>
IsNone(o) == o = <<>>
Get(o) == o[1]

RECURSIVE Strings(_, _)
Strings(alphabet, n) ==
    IF n = 0 THEN {<<>>}
    ELSE LET shorter == Strings(alphabet, n - 1)
         IN  shorter \cup {Append(s, c) : s \in {t \in shorter : Len(t) = n - 1},
                                          c \in alphabet}

HasColon(s) == \E i \in 1..Len(s) : s[i] = Colon

FirstColon(s) == CHOOSE i \in 1..Len(s) : s[i] = Colon /\ \A j \in 1..(i - 1) : s[j] # Colon

\* uri_str.split(":", 1) for a string that holds a colon
SplitColon(s) ==
    LET i == FirstColon(s)
    IN  <<SubSeq(s, 1, i - 1), SubSeq(s, i + 1, Len(s))>>

\* f"{server_name}:{uri}"
Namespaced(name, uri) == name \o <<Colon>> \o uri

ToLower(c) == IF c \in Upper THEN "a" ELSE c

\* pydantic's AnyUrl(s), read back as a string: a string with no scheme (letters up
\* to a first colon) is rejected with a ValidationError; of one that has a scheme the
\* scheme is put in lower case and what follows it is kept
AnyUrl(s) ==
    IF HasColon(s) /\ FirstColon(s) > 1 /\ \A j \in 1..(FirstColon(s) - 1) : s[j] \in Letters
    THEN Some([i \in 1..Len(s) |-> IF i < FirstColon(s) THEN ToLower(s[i]) ELSE s[i]])
    ELSE None

ServerNames == Strings(NameChars, MaxNameLen)
ToolNames == {"x", "y"}
PromptNames == {"p", "q"}
ResourceNames == {"r", "s"}
\* the URIs of the entries a server returns are AnyUrl values already
Uris == {Get(AnyUrl(s)) : s \in {t \in Strings(Chars, MaxUriLen) : ~IsNone(AnyUrl(t))}}
\* what callers pass to read_resource: short strings of any shape, and URLs under
\* the name of a server
RequestUris ==
    Strings(Chars, MaxReqLen)
    \cup {Namespaced(n, u) : n \in ServerNames,
                             u \in {t \in Strings(Chars, MaxUriLen) : ~IsNone(AnyUrl(t))}}

(***************************************************************************)
(* Dictionaries.  sessions, tool_to_server and prompt_to_server are        *)
(* functions on the keys they hold; capabilities, whose iteration order    *)
(* the listings follow, is the sequence of its values in insertion order   *)
(* (every value is stored under its own name).                             *)
(***************************************************************************)
Put(d, k, v) == [x \in DOMAIN d \cup {k} |-> IF x = k THEN v ELSE d[x]]

\* d.get(k)
Lookup(d, k) == IF k \in DOMAIN d THEN Some(d[k]) ELSE None

EmptyDict == [x \in {} |-> x]

CapKeys(cs) == {cs[i].name : i \in 1..Len(cs)}

\* self.capabilities[server_name]
CapOf(cs, name) == cs[CHOOSE i \in 1..Len(cs) : cs[i].name = name]

\* self.capabilities[server_name] = c: a key the dict holds keeps its place
CapPut(cs, c) ==
    IF c.name \in CapKeys(cs)
    THEN [i \in 1..Len(cs) |-> IF cs[i].name = c.name THEN c ELSE cs[i]]
    ELSE Append(cs, c)

(***************************************************************************)
(* What servers advertise                                                  *)
(***************************************************************************)
\* the meta of an entry as its server sent it: None, or a dict, which may hold any
\* key, "serverName" among them
SentMeta == [k \in {"note", "serverName"} |-> IF k = "note" THEN <<"n">> ELSE <<"a", "a">>]

Metas == {None, Some(SentMeta)}

\* the entries servers send: of the two names of a kind, the second comes with a meta
MetaOf(n) == IF n \in {"y", "q", "s"} THEN Some(SentMeta) ELSE None

Tool(n, m) == [name |-> n, meta |-> m]
Prompt(n, m) == [name |-> n, meta |-> m]
Resource(n, u, m) == [name |-> n, uri |-> u, meta |-> m]
ResourceTemplate(n, u, m) == [name |-> n, uriTemplate |-> u, meta |-> m]

Tools == {Tool(n, MetaOf(n)) : n \in ToolNames}
Prompts == {Prompt(n, MetaOf(n)) : n \in PromptNames}
Resources == {Resource(n, u, MetaOf(n)) : n \in ResourceNames, u \in Uris}
ResourceTemplates == {ResourceTemplate(n, u, MetaOf(n)) : n \in ResourceNames, u \in Uris}

RECURSIVE SeqsUpTo(_, _)
SeqsUpTo(S, n) ==
    IF n = 0 THEN {<<>>}
    ELSE LET shorter == SeqsUpTo(S, n - 1)
         IN  shorter \cup {Append(s, e) : s \in {t \in shorter : Len(t) = n - 1}, e \in S}

Min(a, b) == IF a < b THEN a ELSE b

Kinds == {"tools", "resources", "resource_templates", "prompts"}

\* the listings of a kind a server may still return in this connect_all
Replies(kind, S) ==
    IF kind \in focus
    THEN SeqsUpTo(S, Min(MaxCaps, MaxEntries - env.entries))
    ELSE {<<>>}

\* a capability query of the current server may fail
CanFail == server_name \in env.degraded \/ Cardinality(env.degraded) < MaxDegraded

\* the await that _connect_server stands at is made for the current server
Logged(e) == [e EXCEPT !.log = Append(@, <<server_name, pc>>)]

\* the query of kind raised
Failed(kind) ==
    Logged([env EXCEPT !.degraded = @ \cup {server_name},
                       !.queried = @ \cup {<<server_name, kind>>},
                       !.failed = @ \cup {<<server_name, kind>>}])

\* the query of kind returned reply
Advertised(kind, reply) ==
    Logged([env EXCEPT !.entries = @ + Len(reply),
                       !.queried = @ \cup {<<server_name, kind>>}])

\* ServerCapabilities(name=server_name)
ServerCapabilities(name) ==
    [name |-> name, tools |-> None, resources |-> None,
     resource_templates |-> None, prompts |-> None]

NoCaps == ServerCapabilities(<<>>)

\* the environment's part in a connect_all: the configuration load_config returned
\* (None when it raised), the servers _connect_server raised for, the servers whose
\* initialize returned, the servers with a failed capability query, the number of
\* entries advertised, the capability queries made and those of them that raised, the
\* awaits of _connect_server in the order they were made, and the collision warnings
\* logged
NoRun ==
    [runs |-> 0, config |-> None, skipped |-> {}, initialized |-> {}, degraded |-> {},
     entries |-> 0, queried |-> {}, failed |-> {}, log |-> <<>>, warnings |-> {}]

\* MCPServersConfig.mcpServers: a dict, so its keys are distinct
Configs == {c \in SeqsUpTo(ServerNames, MaxServers) :
              \A i, j \in 1..Len(c) : i # j => c[i] # c[j]}

\* the record of a public call: the request, how the call ended, what reached a
\* server's session on the way and what the session did, the listing returned with
\* its nextCursor, and the listing that the same method returned just before
\* (arguments: the arguments, read_timeout_seconds and progress_callback of a
\* call_tool; sent_arguments: what session.call_tool was called with; invoked: the
\* handles of the sessions the call awaited a method of, in order; waiting: the
\* calls of other tasks that wait in their awaited session method)
NoCall ==
    [op |-> "none", name |-> "", uri |-> <<>>, server_name |-> None, cursor |-> None,
     use_namespace |-> TRUE, outcome |-> "none", is_error |-> FALSE, message |-> "",
     target |-> None, handle |-> None, sent_name |-> "", sent_uri |-> <<>>,
     response |-> "none", listing |-> <<>>, nextCursor |-> None, previous |-> None,
     arguments |-> None, sent_arguments |-> None, invoked |-> <<>>, waiting |-> <<>>]

\* the record of a call of a function of utils.py: its arguments and what it returned
\* (after: the arguments of the format_namespace_uri call whose result it was given)
NoUtil == [fn |-> "none", args |-> <<>>, returned |-> <<>>, after |-> <<>>]

TypeOK ==
    /\ DOMAIN sessions \subseteq ServerNames
    /\ CapKeys(capabilities) \subseteq ServerNames
    /\ DOMAIN tool_to_server \subseteq ToolNames
    /\ DOMAIN prompt_to_server \subseteq PromptNames
    /\ pc \in {"idle", "stdio_client", "ClientSession", "initialize", "list_tools",
               "list_resources", "list_resource_templates", "list_prompts",
               "exiting", "closed"}
    /\ connect_result \in {"none", "running", "returned", "raised"}

\* the registry as __init__ leaves it, with an owner that calls connect_all runs times
InitWith(runs) ==
    /\ sessions = EmptyDict
    /\ capabilities = <<>>
    /\ tool_to_server = EmptyDict
    /\ prompt_to_server = EmptyDict
    /\ stack = <<>>
    /\ pc = "idle"
    /\ pending = <<>>
    /\ server_name = <<>>
    /\ caps = NoCaps
    /\ connect_result = "none"
    /\ env = NoRun
    /\ focus \in {f \in SUBSET Kinds : Cardinality(f) <= MaxKinds}
    /\ budget = runs
    /\ released = <<>>
    /\ util = NoUtil
    /\ last = NoCall

Init == InitWith(MaxRuns)

(***************************************************************************)
(* connect_all and _connect_server.  Every await is a step of its own;     *)
(* the code between two awaits runs in the step of the first.              *)
(***************************************************************************)

\* the for loop of connect_all takes the next of the servers in rest, or
\* connect_all returns
Advance(rest) ==
    /\ caps' = NoCaps
    /\ last' = NoCall
    /\ UNCHANGED <<focus, released, util>>
    /\ IF rest = <<>>
       THEN /\ pc' = "idle"
            /\ server_name' = <<>>
            /\ pending' = <<>>
            /\ connect_result' = "returned"
       ELSE /\ pc' = "stdio_client"
            /\ server_name' = Head(rest)
            /\ pending' = Tail(rest)
            /\ connect_result' = "running"

\* connect_all gives up at the first server that fails
SkipServerAborts ==
    /\ Advance(<<>>)
    /\ env' = Logged([env EXCEPT !.skipped = @ \cup {server_name}])
    /\ UNCHANGED budget

\* an exception leaves _connect_server; connect_all logs it and takes the next server
SkipServer ==
    /\ Advance(pending)
    /\ env' = Logged([env EXCEPT !.skipped = @ \cup {server_name}])
    /\ UNCHANGED budget

\* _connect_server goes on to its next await
Goto(step) ==
    /\ pc' = step
    /\ last' = NoCall
    /\ UNCHANGED <<pending, server_name, connect_result, focus, budget, released, util>>

\* the registry is emptied before the configuration is loaded
ConnectAllRaisesCleared ==
    /\ pc = "idle"
    /\ budget > 0
    /\ budget' = budget - 1
    /\ env' = [NoRun EXCEPT !.runs = env.runs + 1]
    /\ connect_result' = "raised"
    /\ last' = NoCall
    /\ sessions' = EmptyDict
    /\ capabilities' = <<>>
    /\ tool_to_server' = EmptyDict
    /\ prompt_to_server' = EmptyDict
    /\ UNCHANGED <<stack, pc, pending, server_name, caps, focus, released, util>>

\* load_config raises: no file, no JSON, or not the schema
ConnectAllRaises ==
    /\ pc = "idle"
    /\ budget > 0
    /\ budget' = budget - 1
    /\ env' = [NoRun EXCEPT !.runs = env.runs + 1]
    /\ connect_result' = "raised"
    /\ last' = NoCall
    /\ UNCHANGED <<registry, stack, pc, pending, server_name, caps, focus, released,
                   util>>

ConnectAll ==
    /\ pc = "idle"
    /\ budget > 0
    /\ budget' = budget - 1
    /\ \E config \in Configs :
         /\ env' = [NoRun EXCEPT !.runs = env.runs + 1, !.config = Some(config)]
         /\ Advance(config)
    /\ UNCHANGED <<registry, stack>>

StdioClientOpens ==
    /\ pc = "stdio_client"
    /\ stack' = Append(stack, [server |-> server_name, context |-> "stdio_client"])
    /\ env' = Logged(env)
    /\ Goto("ClientSession")
    /\ UNCHANGED <<registry, caps>>

StdioClientFails ==
    /\ pc = "stdio_client"
    /\ SkipServer
    /\ UNCHANGED <<registry, stack>>

ClientSessionOpens ==
    /\ pc = "ClientSession"
    /\ stack' = Append(stack, [server |-> server_name, context |-> "ClientSession"])
    /\ env' = Logged(env)
    /\ Goto("initialize")
    /\ UNCHANGED <<registry, caps>>

ClientSessionFails ==
    /\ pc = "ClientSession"
    /\ SkipServer
    /\ UNCHANGED <<registry, stack>>

\* the session is not put in sessions
InitializeReturnsUnregistered ==
    /\ pc = "initialize"
    /\ caps' = ServerCapabilities(server_name)
    /\ env' = Logged([env EXCEPT !.initialized = @ \cup {server_name}])
    /\ Goto("list_tools")
    /\ UNCHANGED <<registry, stack>>

\* the session registered is the context entered last
InitializeReturns ==
    /\ pc = "initialize"
    /\ sessions' = Put(sessions, server_name, Len(stack))
    /\ caps' = ServerCapabilities(server_name)
    /\ env' = Logged([env EXCEPT !.initialized = @ \cup {server_name}])
    /\ Goto("list_tools")
    /\ UNCHANGED <<capabilities, tool_to_server, prompt_to_server, stack>>

\* initialize raises after the session was registered
InitializeFailsRegistered ==
    /\ pc = "initialize"
    /\ sessions' = Put(sessions, server_name, Len(stack))
    /\ SkipServer
    /\ UNCHANGED <<capabilities, tool_to_server, prompt_to_server, stack>>

\* initialize is awaited once more after it raised
InitializeFailsRetried ==
    /\ pc = "initialize"
    /\ \A i \in 1..Len(env.log) : env.log[i] # <<server_name, "initialize">>
    /\ env' = Logged(env)
    /\ Goto("initialize")
    /\ UNCHANGED <<registry, stack, caps>>

InitializeFails ==
    /\ pc = "initialize"
    /\ SkipServer
    /\ UNCHANGED <<registry, stack>>

\* the first server to register a name keeps it
RECURSIVE MapToServerFirstWins(_, _, _)
MapToServerFirstWins(table, entries, server) ==
    IF entries = <<>> THEN table
    ELSE MapToServerFirstWins(
             IF Head(entries).name \in DOMAIN table THEN table
             ELSE Put(table, Head(entries).name, server),
             Tail(entries), server)

\* the warnings of the loop over entries: one for each entry whose name is in the
\* table when its turn comes, naming the server bound to it and the current one
RECURSIVE Collisions(_, _, _)
Collisions(table, entries, server) ==
    IF entries = <<>> THEN {}
    ELSE (IF Head(entries).name \in DOMAIN table
          THEN {[name |-> Head(entries).name, existing_server |-> table[Head(entries).name],
                 server_name |-> server]}
          ELSE {})
         \cup Collisions(Put(table, Head(entries).name, server), Tail(entries), server)

\* for entry in entries: table[entry.name] = server
RECURSIVE MapToServer(_, _, _)
MapToServer(table, entries, server) ==
    IF entries = <<>> THEN table
    ELSE MapToServer(Put(table, Head(entries).name, server), Tail(entries), server)

ListToolsReturns ==
    /\ pc = "list_tools"
    /\ \E reply \in Replies("tools", Tools) :
         /\ caps' = [caps EXCEPT !.tools = Some(reply)]
         /\ tool_to_server' = MapToServer(tool_to_server, reply, server_name)
         /\ env' = [Advertised("tools", reply) EXCEPT
                      !.warnings = @ \cup Collisions(tool_to_server, reply, server_name)]
    /\ Goto("list_resources")
    /\ UNCHANGED <<sessions, capabilities, prompt_to_server, stack>>

\* the exception of the tools query leaves _connect_server
ListToolsFailsAborts ==
    /\ pc = "list_tools"
    /\ CanFail
    /\ env' = [Failed("tools") EXCEPT !.skipped = @ \cup {server_name}]
    /\ Advance(pending)
    /\ UNCHANGED <<registry, stack, budget>>

ListToolsFails ==
    /\ pc = "list_tools"
    /\ CanFail
    /\ env' = Failed("tools")
    /\ Goto("list_resources")
    /\ UNCHANGED <<registry, stack, caps>>

ListResourcesReturns ==
    /\ pc = "list_resources"
    /\ \E reply \in Replies("resources", Resources) :
         /\ caps' = [caps EXCEPT !.resources = Some(reply)]
         /\ env' = Advertised("resources", reply)
    /\ Goto("list_resource_templates")
    /\ UNCHANGED <<registry, stack>>

ListResourcesFails ==
    /\ pc = "list_resources"
    /\ CanFail
    /\ env' = Failed("resources")
    /\ Goto("list_resource_templates")
    /\ UNCHANGED <<registry, stack, caps>>

ListResourceTemplatesReturns ==
    /\ pc = "list_resource_templates"
    /\ \E reply \in Replies("resource_templates", ResourceTemplates) :
         /\ caps' = [caps EXCEPT !.resource_templates = Some(reply)]
         /\ env' = Advertised("resource_templates", reply)
    /\ Goto("list_prompts")
    /\ UNCHANGED <<registry, stack>>

ListResourceTemplatesFails ==
    /\ pc = "list_resource_templates"
    /\ CanFail
    /\ env' = Failed("resource_templates")
    /\ Goto("list_prompts")
    /\ UNCHANGED <<registry, stack, caps>>

\* the last await of _connect_server: the snapshot is stored in the same step
ListPromptsReturns ==
    /\ pc = "list_prompts"
    /\ \E reply \in Replies("prompts", Prompts) :
         /\ capabilities' = CapPut(capabilities, [caps EXCEPT !.prompts = Some(reply)])
         /\ prompt_to_server' = MapToServer(prompt_to_server, reply, server_name)
         /\ env' = [Advertised("prompts", reply) EXCEPT
                      !.warnings = @ \cup Collisions(prompt_to_server, reply, server_name)]
    /\ Advance(pending)
    /\ UNCHANGED <<sessions, tool_to_server, stack, budget>>

\* the exception of the prompts query leaves _connect_server before line 240
ListPromptsFailsUnstored ==
    /\ pc = "list_prompts"
    /\ CanFail
    /\ env' = Failed("prompts")
    /\ Advance(pending)
    /\ UNCHANGED <<registry, stack, budget>>

ListPromptsFails ==
    /\ pc = "list_prompts"
    /\ CanFail
    /\ env' = Failed("prompts")
    /\ capabilities' = CapPut(capabilities, caps)
    /\ Advance(pending)
    /\ UNCHANGED <<sessions, tool_to_server, prompt_to_server, stack, budget>>

(***************************************************************************)
(* The scope that owns the connections: async with AsyncExitStack() as     *)
(* stack.  It is left when its body ends or when an exception leaves the   *)
(* body, connect_all included (connect_all lets through what is no         *)
(* Exception, a cancellation for one).                                     *)
(***************************************************************************)
ExitScope ==
    /\ pc \notin {"exiting", "closed"}
    /\ pc' = IF stack = <<>> THEN "closed" ELSE "exiting"
    /\ last' = NoCall
    /\ UNCHANGED <<registry, stack, pending, server_name, caps, connect_result, env,
                   focus, budget, released, util>>

\* the contexts are closed from the one entered first
ExitStackClosesOldest ==
    /\ pc = "exiting"
    /\ released' = Append(released, Len(released) + 1)
    /\ pc' = IF Len(released') = Len(stack) THEN "closed" ELSE "exiting"
    /\ UNCHANGED <<registry, stack, pending, server_name, caps, connect_result, env,
                   focus, budget, util, last>>

\* AsyncExitStack.__aexit__ closes the context entered last of those still open
ExitStackCloses ==
    /\ pc = "exiting"
    /\ released' = Append(released, Len(stack) - Len(released))
    /\ pc' = IF Len(released') = Len(stack) THEN "closed" ELSE "exiting"
    /\ UNCHANGED <<registry, stack, pending, server_name, caps, connect_result, env,
                   focus, budget, util, last>>

(***************************************************************************)
(* The aggregated listings                                                 *)
(***************************************************************************)
Cursors == {None, Some(<<>>), Some(<<"a">>)}

\* the meta the entry came with is dropped: {"serverName": server_name}
WithServerNameOnly(meta, server) == Some(Put(EmptyDict, "serverName", server))

\* {**existing_meta, "serverName": server_name} with existing_meta = entry.meta or {}
WithServerName(meta, server) ==
    Some(Put(IF IsNone(meta) THEN EmptyDict ELSE Get(meta), "serverName", server))

RECURSIVE TagTools(_, _)
TagTools(entries, server) ==
    IF entries = <<>> THEN <<>>
    ELSE <<[Head(entries) EXCEPT !.meta = WithServerName(@, server)]>>
         \o TagTools(Tail(entries), server)

RECURSIVE TagPrompts(_, _)
TagPrompts(entries, server) ==
    IF entries = <<>> THEN <<>>
    ELSE <<[Head(entries) EXCEPT !.meta = WithServerName(@, server)]>>
         \o TagPrompts(Tail(entries), server)

\* the URI is namespaced whatever use_namespace says
RECURSIVE TagResourcesAlwaysNamespaced(_, _, _)
TagResourcesAlwaysNamespaced(entries, server, use_namespace) ==
    IF entries = <<>> THEN <<>>
    ELSE <<[Head(entries) EXCEPT
              !.uri = Namespaced(server, @),
              !.meta = WithServerName(@, server)]>>
         \o TagResourcesAlwaysNamespaced(Tail(entries), server, use_namespace)

RECURSIVE TagResources(_, _, _)
TagResources(entries, server, use_namespace) ==
    IF entries = <<>> THEN <<>>
    ELSE <<[Head(entries) EXCEPT
              !.uri = IF use_namespace THEN Namespaced(server, @) ELSE @,
              !.meta = WithServerName(@, server)]>>
         \o TagResources(Tail(entries), server, use_namespace)

RECURSIVE TagResourceTemplates(_, _, _)
TagResourceTemplates(entries, server, use_namespace) ==
    IF entries = <<>> THEN <<>>
    ELSE <<[Head(entries) EXCEPT
              !.uriTemplate = IF use_namespace THEN Namespaced(server, @) ELSE @,
              !.meta = WithServerName(@, server)]>>
         \o TagResourceTemplates(Tail(entries), server, use_namespace)

\* the servers are gone through from the last stored to the first
RECURSIVE list_tools_reversed(_)
list_tools_reversed(cs) ==
    IF cs = <<>> THEN <<>>
    ELSE list_tools_reversed(Tail(cs))
         \o (IF IsNone(Head(cs).tools) THEN <<>>
             ELSE TagTools(Get(Head(cs).tools), Head(cs).name))

RECURSIVE list_tools(_)
list_tools(cs) ==
    IF cs = <<>> THEN <<>>
    ELSE (IF IsNone(Head(cs).tools) THEN <<>>
          ELSE TagTools(Get(Head(cs).tools), Head(cs).name))
         \o list_tools(Tail(cs))

RECURSIVE list_prompts(_)
list_prompts(cs) ==
    IF cs = <<>> THEN <<>>
    ELSE (IF IsNone(Head(cs).prompts) THEN <<>>
          ELSE TagPrompts(Get(Head(cs).prompts), Head(cs).name))
         \o list_prompts(Tail(cs))

RECURSIVE list_resources(_, _)
list_resources(cs, use_namespace) ==
    IF cs = <<>> THEN <<>>
    ELSE (IF IsNone(Head(cs).resources) THEN <<>>
          ELSE TagResources(Get(Head(cs).resources), Head(cs).name, use_namespace))
         \o list_resources(Tail(cs), use_namespace)

RECURSIVE list_resource_templates(_, _)
list_resource_templates(cs, use_namespace) ==
    IF cs = <<>> THEN <<>>
    ELSE (IF IsNone(Head(cs).resource_templates) THEN <<>>
          ELSE TagResourceTemplates(Get(Head(cs).resource_templates), Head(cs).name,
                                    use_namespace))
         \o list_resource_templates(Tail(cs), use_namespace)

\* the listing that the call before this one returned, when it was a call of the
\* same method with the same use_namespace
Previous(op, use_namespace) ==
    IF last.op = op /\ last.outcome = "returned" /\ last.use_namespace = use_namespace
    THEN Some(last.listing)
    ELSE None

\* only a cursor that is not the empty string is refused: if cursor:
ListedUnlessEmptyCursor(op, cursor, use_namespace, listing) ==
    IF IsNone(cursor) \/ Get(cursor) = <<>>
    THEN [NoCall EXCEPT !.op = op, !.use_namespace = use_namespace, !.cursor = cursor,
                        !.outcome = "returned", !.listing = listing,
                        !.previous = Previous(op, use_namespace)]
    ELSE [NoCall EXCEPT !.op = op, !.use_namespace = use_namespace, !.cursor = cursor,
                        !.outcome = "raised", !.message = "ValueError"]

\* a listing call: a cursor raises ValueError, no cursor returns the listing with
\* nextCursor=None
Listed(op, cursor, use_namespace, listing) ==
    IF IsNone(cursor)
    THEN [NoCall EXCEPT !.op = op, !.use_namespace = use_namespace,
                        !.outcome = "returned", !.listing = listing,
                        !.nextCursor = None, !.previous = Previous(op, use_namespace)]
    ELSE [NoCall EXCEPT !.op = op, !.use_namespace = use_namespace, !.cursor = cursor,
                        !.outcome = "raised", !.message = "ValueError"]

Idle == <<stack, pc, pending, server_name, caps, connect_result, env, focus, budget,
         released, util>>

\* the caller makes one call at a time, of the kinds this behaviour exercises
Ready(kind) == kind \in focus /\ last = NoCall

\* a listing may also be asked for again right after it was returned
ReadyToList(kind, op) ==
    /\ kind \in focus
    /\ last = NoCall \/ (last.op = op /\ last.outcome = "returned")

\* a resource of every snapshot has its URI replaced by the namespaced one
NamespacedInPlace(c) ==
    IF IsNone(c.resources) THEN c
    ELSE [c EXCEPT !.resources =
            Some([i \in 1..Len(Get(c.resources)) |->
                    [Get(c.resources)[i] EXCEPT !.uri = Namespaced(c.name, @)]])]

\* list_resources writes the namespaced URI into the entry of the snapshot
RegistryAfterListingInPlace(call) ==
    [sessions |-> sessions,
     capabilities |->
        IF call.op = "list_resources" /\ call.outcome = "returned" /\ call.use_namespace
        THEN [i \in 1..Len(capabilities) |-> NamespacedInPlace(capabilities[i])]
        ELSE capabilities,
     tool_to_server |-> tool_to_server,
     prompt_to_server |-> prompt_to_server]

\* a session whose call raised is dropped from sessions
RegistryAfterEvicting(call) ==
    [sessions |->
        IF call.response = "raises"
        THEN [n \in DOMAIN sessions \ {Get(call.target)} |-> sessions[n]]
        ELSE sessions,
     capabilities |-> capabilities,
     tool_to_server |-> tool_to_server,
     prompt_to_server |-> prompt_to_server]

\* a tool call that names its server binds the tool to that server
RegistryAfterLearning(call) ==
    [sessions |-> sessions,
     capabilities |-> capabilities,
     tool_to_server |->
        IF call.op = "call_tool" /\ ~IsNone(call.server_name) /\ ~IsNone(call.target)
        THEN Put(tool_to_server, call.name, Get(call.server_name))
        ELSE tool_to_server,
     prompt_to_server |-> prompt_to_server]

\* a prompt fetched from a server named by the caller is bound to that server
RegistryAfterPinning(call) ==
    [sessions |-> sessions,
     capabilities |-> capabilities,
     tool_to_server |-> tool_to_server,
     prompt_to_server |->
        IF call.op = "none" /\ call.waiting # <<>>
           /\ call.waiting[Len(call.waiting)].op = "get_prompt"
           /\ ~IsNone(call.waiting[Len(call.waiting)].server_name)
        THEN Put(prompt_to_server, call.waiting[Len(call.waiting)].name,
                 Get(call.waiting[Len(call.waiting)].server_name))
        ELSE prompt_to_server]

\* the registry after a public call: no list_*, call_tool, read_resource or get_prompt
\* assigns to self.sessions, self.capabilities, self.tool_to_server or
\* self.prompt_to_server, or to an object they hold (the listed entries are copies
\* made by model_copy)
RegistryAfter(call) ==
    [sessions |-> sessions,
     capabilities |-> capabilities,
     tool_to_server |-> tool_to_server,
     prompt_to_server |-> prompt_to_server]

Effect(call) ==
    /\ sessions' = RegistryAfter(call).sessions
    /\ capabilities' = RegistryAfter(call).capabilities
    /\ tool_to_server' = RegistryAfter(call).tool_to_server
    /\ prompt_to_server' = RegistryAfter(call).prompt_to_server

\* the caller has taken the result of its call
TakeResult ==
    /\ last # NoCall
    /\ last' = NoCall
    /\ UNCHANGED <<registry, Idle>>

ListTools ==
    /\ ReadyToList("tools", "list_tools")
    /\ \E cursor \in Cursors :
         last' = Listed("list_tools", cursor, TRUE, list_tools(capabilities))
    /\ Effect(last')
    /\ UNCHANGED Idle

ListPrompts ==
    /\ ReadyToList("prompts", "list_prompts")
    /\ \E cursor \in Cursors :
         last' = Listed("list_prompts", cursor, TRUE, list_prompts(capabilities))
    /\ Effect(last')
    /\ UNCHANGED Idle

ListResources ==
    /\ ReadyToList("resources", "list_resources")
    /\ \E cursor \in Cursors, use_namespace \in BOOLEAN :
         last' = Listed("list_resources", cursor, use_namespace,
                        list_resources(capabilities, use_namespace))
    /\ Effect(last')
    /\ UNCHANGED Idle

ListResourceTemplates ==
    /\ ReadyToList("resource_templates", "list_resource_templates")
    /\ \E cursor \in Cursors, use_namespace \in BOOLEAN :
         last' = Listed("list_resource_templates", cursor, use_namespace,
                        list_resource_templates(capabilities, use_namespace))
    /\ Effect(last')
    /\ UNCHANGED Idle

(***************************************************************************)
(* Routing.  Each operator follows its method up to the awaited session    *)
(* call and says how the method ends there: "error" (an error-flagged      *)
(* result is returned), "raise" (an exception leaves the method) or        *)
(* "forward" (the session of server is called with what is in sent).       *)
(***************************************************************************)
Raise(message) == [to |-> "raise", message |-> message, server |-> <<>>, sent |-> <<>>]

\* the routing error of a tool call leaves as an exception
ErrorRaised(message) == Raise(message)

\* return self._create_error_result(message)
Error(message) == [to |-> "error", message |-> message, server |-> <<>>, sent |-> <<>>]
Forward(server, sent) == [to |-> "forward", message |-> "", server |-> server, sent |-> sent]

\* session = self.sessions[server_name]
SessionOf(server, sent) ==
    IF server \in DOMAIN sessions THEN Forward(server, sent) ELSE Raise("KeyError")

\* not server_name, for the Optional[str] that dict.get returns
Falsy(o) == IsNone(o) \/ Get(o) = <<>>

NamesOf(entries) == {entries[i].name : i \in 1..Len(entries)}

\* the server named by the caller is not asked whether it has the tool
call_tool_unvalidated(name, server) ==
    IF IsNone(server)
    THEN LET found == Lookup(tool_to_server, name)
         IN  IF Falsy(found) THEN Error("Unknown tool")
             ELSE SessionOf(Get(found), <<>>)
    ELSE IF Get(server) \notin DOMAIN sessions THEN Error("Unknown server")
    ELSE SessionOf(Get(server), <<>>)

\* the server named by the caller is looked up in the routing table: only the server
\* the name is bound to has the tool
call_tool_owner_only(name, server) ==
    IF IsNone(server)
    THEN LET found == Lookup(tool_to_server, name)
         IN  IF Falsy(found) THEN Error("Unknown tool")
             ELSE SessionOf(Get(found), <<>>)
    ELSE IF Get(server) \notin DOMAIN sessions THEN Error("Unknown server")
    ELSE IF Lookup(tool_to_server, name) # server THEN Error("not found in server")
    ELSE SessionOf(Get(server), <<>>)

call_tool(name, server) ==
    IF IsNone(server)
    THEN LET found == Lookup(tool_to_server, name)
         IN  IF Falsy(found) THEN Error("Unknown tool")
             ELSE SessionOf(Get(found), <<>>)
    ELSE IF Get(server) \notin DOMAIN sessions THEN Error("Unknown server")
    ELSE IF Get(server) \notin CapKeys(capabilities) THEN Raise("KeyError")
    ELSE IF IsNone(CapOf(capabilities, Get(server)).tools) THEN Error("has no tools")
    ELSE IF name \notin NamesOf(Get(CapOf(capabilities, Get(server)).tools))
         THEN Error("not found in server")
    ELSE SessionOf(Get(server), <<>>)

\* an unknown prompt is looked for on the first server connected
get_prompt_fallback(name, server) ==
    IF IsNone(server)
    THEN LET found == Lookup(prompt_to_server, name)
         IN  IF Falsy(found)
             THEN IF capabilities = <<>> THEN Raise("Unknown prompt")
                  ELSE SessionOf(capabilities[1].name, <<>>)
             ELSE SessionOf(Get(found), <<>>)
    ELSE IF Get(server) \notin DOMAIN sessions THEN Raise("Unknown server")
    ELSE IF Get(server) \notin CapKeys(capabilities) THEN Raise("KeyError")
    ELSE IF IsNone(CapOf(capabilities, Get(server)).prompts) THEN Raise("has no prompts")
    ELSE IF name \notin NamesOf(Get(CapOf(capabilities, Get(server)).prompts))
         THEN Raise("not found in server")
    ELSE SessionOf(Get(server), <<>>)

get_prompt(name, server) ==
    IF IsNone(server)
    THEN LET found == Lookup(prompt_to_server, name)
         IN  IF Falsy(found) THEN Raise("Unknown prompt")
             ELSE SessionOf(Get(found), <<>>)
    ELSE IF Get(server) \notin DOMAIN sessions THEN Raise("Unknown server")
    ELSE IF Get(server) \notin CapKeys(capabilities) THEN Raise("KeyError")
    ELSE IF IsNone(CapOf(capabilities, Get(server)).prompts) THEN Raise("has no prompts")
    ELSE IF name \notin NamesOf(Get(CapOf(capabilities, Get(server)).prompts))
         THEN Raise("not found in server")
    ELSE SessionOf(Get(server), <<>>)

LastColon(s) == CHOOSE i \in 1..Len(s) : s[i] = Colon /\ \A j \in (i + 1)..Len(s) : s[j] # Colon

\* the URI is split at its last colon: uri_str.rsplit(":", 1)
ResolveUriLastColon(uri, server) ==
    LET i == LastColon(uri)
    IN  IF ~IsNone(server) THEN <<server, uri>>
        ELSE IF HasColon(uri) /\ SubSeq(uri, 1, i - 1) \in DOMAIN sessions
             THEN <<Some(SubSeq(uri, 1, i - 1)), SubSeq(uri, i + 1, Len(uri))>>
        ELSE <<None, uri>>

\* a URI under no connected server's name goes to some connected server
ResolveUriAnyServer(uri, server) ==
    IF ~IsNone(server) THEN <<server, uri>>
    ELSE IF HasColon(uri) /\ SplitColon(uri)[1] \in DOMAIN sessions
         THEN <<Some(SplitColon(uri)[1]), SplitColon(uri)[2]>>
    ELSE IF DOMAIN sessions # {} THEN <<Some(CHOOSE n \in DOMAIN sessions : TRUE), uri>>
    ELSE <<None, uri>>

\* the name of a connected server is stripped from the URI although the caller
\* names the server
ResolveUriStripping(uri, server) ==
    IF HasColon(uri) /\ SplitColon(uri)[1] \in DOMAIN sessions
    THEN <<IF IsNone(server) THEN Some(SplitColon(uri)[1]) ELSE server, SplitColon(uri)[2]>>
    ELSE <<server, uri>>

\* the first half of read_resource: the server and the URI it settles on
\* a URI is split only when what follows its first colon has a colon of its own
ResolveUriNamespacedOnly(uri, server) ==
    IF ~IsNone(server) THEN <<server, uri>>
    ELSE IF HasColon(uri) /\ HasColon(SplitColon(uri)[2])
            /\ SplitColon(uri)[1] \in DOMAIN sessions
         THEN <<Some(SplitColon(uri)[1]), SplitColon(uri)[2]>>
    ELSE <<None, uri>>

ResolveUri(uri, server) ==
    IF ~IsNone(server) THEN <<server, uri>>
    ELSE IF HasColon(uri) /\ SplitColon(uri)[1] \in DOMAIN sessions
         THEN <<Some(SplitColon(uri)[1]), SplitColon(uri)[2]>>
    ELSE <<None, uri>>

read_resource(uri, server) ==
    LET resolved == ResolveUri(uri, server)
        to == resolved[1]
        actual_uri == resolved[2]
    IN  IF IsNone(to) THEN Raise("Must specify server_name")
        ELSE IF Get(to) \notin DOMAIN sessions THEN Raise("Unknown server")
        ELSE IF IsNone(AnyUrl(actual_uri)) THEN Raise("ValidationError")
        ELSE Forward(Get(to), Get(AnyUrl(actual_uri)))

\* what the awaited session call may do: return a result, return a result flagged
\* isError (tools only), or raise
Responses(op) ==
    IF op = "call_tool" THEN {"result", "error result", "raises"} ELSE {"result", "raises"}

\* a call that is not forwarded tries every session there is
InvocationsFallingBack(route) ==
    IF route.to = "forward" THEN <<sessions[route.server]>>
    ELSE IF DOMAIN sessions = {} THEN <<>>
    ELSE <<sessions[CHOOSE n \in DOMAIN sessions : TRUE]>>

\* the one awaited session method at the end of call_tool, read_resource, get_prompt
Invocations(route) == IF route.to = "forward" THEN <<sessions[route.server]>> ELSE <<>>

\* the record of a routed call
Called(op, name, uri, server, route, response) ==
    LET request == [NoCall EXCEPT !.op = op, !.name = name, !.uri = uri,
                                  !.server_name = server,
                                  !.invoked = Invocations(route)]
    IN  IF route.to = "error"
        THEN [request EXCEPT !.outcome = "returned", !.is_error = TRUE,
                             !.message = route.message]
        ELSE IF route.to = "raise"
        THEN [request EXCEPT !.outcome = "raised", !.message = route.message]
        ELSE [request EXCEPT
                !.outcome = IF response = "raises" THEN "raised" ELSE "returned",
                !.is_error = (response = "error result"),
                !.message = IF response = "raises" THEN "server" ELSE "",
                !.target = Some(route.server),
                !.handle = Some(sessions[route.server]),
                !.response = response,
                !.sent_name = name,
                !.sent_uri = route.sent]

\* a call that is not forwarded has no response to choose
ResponsesTo(op, route) == IF route.to = "forward" THEN Responses(op) ELSE {"result"}

\* what a caller passes to call_tool besides the name and the server
CallArguments ==
    {[arguments |-> "{}", read_timeout_seconds |-> None, progress_callback |-> None],
     [arguments |-> "{k: v}", read_timeout_seconds |-> Some("5s"),
      progress_callback |-> Some("callback")]}

\* the session is called without the timeout
session_call_tool_untimed(name, passed) ==
    [name |-> name, arguments |-> passed.arguments, read_timeout_seconds |-> None,
     progress_callback |-> passed.progress_callback]

\* session.call_tool(name, arguments, read_timeout_seconds=read_timeout_seconds,
\*                   progress_callback=progress_callback)
session_call_tool(name, passed) ==
    [name |-> name, arguments |-> passed.arguments,
     read_timeout_seconds |-> passed.read_timeout_seconds,
     progress_callback |-> passed.progress_callback]

\* the record of a call_tool with what was passed and what its session was given
WithArguments(call, passed) ==
    [call EXCEPT !.arguments = Some(passed),
                 !.sent_arguments = IF IsNone(call.target) THEN None
                                    ELSE Some(session_call_tool(call.name, passed))]

CallTool ==
    /\ Ready("tools")
    /\ \E name \in ToolNames, server \in {None} \cup {Some(n) : n \in ServerNames},
          passed \in CallArguments :
         \E response \in ResponsesTo("call_tool", call_tool(name, server)) :
           last' = WithArguments(Called("call_tool", name, <<>>, server,
                                        call_tool(name, server), response), passed)
    /\ Effect(last')
    /\ UNCHANGED Idle

GetPrompt ==
    /\ Ready("prompts")
    /\ \E name \in PromptNames, server \in {None} \cup {Some(n) : n \in ServerNames} :
         \E response \in ResponsesTo("get_prompt", get_prompt(name, server)) :
           last' = Called("get_prompt", name, <<>>, server, get_prompt(name, server), response)
    /\ Effect(last')
    /\ UNCHANGED Idle

ReadResource ==
    /\ Ready("resources")
    /\ \E uri \in RequestUris, server \in {None} \cup {Some(n) : n \in ServerNames} :
         \E response \in ResponsesTo("read_resource", read_resource(uri, server)) :
           last' = Called("read_resource", "", uri, server, read_resource(uri, server),
                          response)
    /\ Effect(last')
    /\ UNCHANGED Idle

(***************************************************************************)
(* Calls of several tasks.  A task runs from the start of its call to the  *)
(* awaited session method without an await, so that part is one step; it   *)
(* then waits for the answer of its session while other tasks start and    *)
(* finish calls.  The session it waits on is the local variable session.   *)
(***************************************************************************)
\* a task may start a call: connect_all has returned, no result is waiting to be
\* taken, and fewer than MaxInFlight calls wait for their session (kinds: the kinds
\* of entries under which this behaviour makes the call)
MayStart(kinds) ==
    /\ focus \subseteq kinds
    /\ env.runs = 1 /\ connect_result = "returned"
    /\ last.op = "none"
    /\ Len(last.waiting) < MaxInFlight

\* the call as it stands at its await: routed, and not answered
Suspended(call) == [call EXCEPT !.outcome = "pending", !.waiting = <<>>]

\* the state of the calls after a task ran call up to its await or to its end
Started(call) ==
    IF IsNone(call.target)
    THEN [call EXCEPT !.waiting = last.waiting]
    ELSE [NoCall EXCEPT !.waiting = Append(last.waiting, Suspended(call))]

\* the awaited session method returns or raises, and so does the call
Answered(call, response) ==
    [call EXCEPT !.outcome = IF response = "raises" THEN "raised" ELSE "returned",
                 !.is_error = (response = "error result"),
                 !.message = IF response = "raises" THEN "server" ELSE "",
                 !.response = response]

Without(seq, i) == SubSeq(seq, 1, i - 1) \o SubSeq(seq, i + 1, Len(seq))

StartCallTool ==
    /\ MayStart({"tools"})
    /\ \E name \in ToolNames, server \in {None} \cup {Some(n) : n \in ServerNames},
          passed \in CallArguments :
         last' = Started(WithArguments(Called("call_tool", name, <<>>, server,
                                              call_tool(name, server), "none"), passed))
    /\ Effect(last')
    /\ UNCHANGED Idle

StartGetPrompt ==
    /\ MayStart({"prompts"})
    /\ \E name \in PromptNames, server \in {None} \cup {Some(n) : n \in ServerNames} :
         last' = Started(Called("get_prompt", name, <<>>, server, get_prompt(name, server),
                                "none"))
    /\ Effect(last')
    /\ UNCHANGED Idle

StartReadResource ==
    /\ MayStart(Kinds)
    /\ \E uri \in RequestUris, server \in {None} \cup {Some(n) : n \in ServerNames} :
         last' = Started(Called("read_resource", "", uri, server,
                                read_resource(uri, server), "none"))
    /\ Effect(last')
    /\ UNCHANGED Idle

\* the session of one of the waiting calls answers, in any order
SessionAnswers ==
    /\ last.op = "none"
    /\ \E i \in 1..Len(last.waiting) :
         \E response \in Responses(last.waiting[i].op) :
           last' = [Answered(last.waiting[i], response) EXCEPT
                      !.waiting = Without(last.waiting, i)]
    /\ Effect(last')
    /\ UNCHANGED Idle

\* the task whose call ended has its result
TaskTakesResult ==
    /\ last.op # "none"
    /\ last' = [NoCall EXCEPT !.waiting = last.waiting]
    /\ UNCHANGED <<registry, Idle>>

Next ==
    \/ ConnectAllRaises
    \/ ConnectAll
    \/ StdioClientOpens
    \/ StdioClientFails
    \/ ClientSessionOpens
    \/ ClientSessionFails
    \/ InitializeReturns
    \/ InitializeFails
    \/ ListToolsReturns
    \/ ListToolsFails
    \/ ListResourcesReturns
    \/ ListResourcesFails
    \/ ListResourceTemplatesReturns
    \/ ListResourceTemplatesFails
    \/ ListPromptsReturns
    \/ ListPromptsFails
    \/ ListTools
    \/ ListPrompts
    \/ ListResources
    \/ ListResourceTemplates
    \/ CallTool
    \/ GetPrompt
    \/ ReadResource
    \/ TakeResult

Spec == Init /\ [][Next]_vars

(***************************************************************************)
(* A registry that is connected again: connect_all, then connect_all once  *)
(* more, with any configuration each time, servers that fail to open or    *)
(* to initialize, and capability queries that all answer.                  *)
(***************************************************************************)
InitRerun == InitWith(MaxReruns)

NextRerun ==
    \/ ConnectAllRaises
    \/ ConnectAll
    \/ StdioClientOpens
    \/ StdioClientFails
    \/ ClientSessionOpens
    \/ ClientSessionFails
    \/ InitializeReturns
    \/ InitializeFails
    \/ ListToolsReturns
    \/ ListResourcesReturns
    \/ ListResourceTemplatesReturns
    \/ ListPromptsReturns

SpecRerun == InitRerun /\ [][NextRerun]_vars

(***************************************************************************)
(* The registry and the scope that owns its connections: connect_all, and  *)
(* the exit of the scope at any point of it or after it.                   *)
(***************************************************************************)
NextScope ==
    \/ ConnectAllRaises
    \/ ConnectAll
    \/ StdioClientOpens
    \/ StdioClientFails
    \/ ClientSessionOpens
    \/ ClientSessionFails
    \/ InitializeReturns
    \/ InitializeFails
    \/ ListToolsReturns
    \/ ListToolsFails
    \/ ListResourcesReturns
    \/ ListResourcesFails
    \/ ListResourceTemplatesReturns
    \/ ListResourceTemplatesFails
    \/ ListPromptsReturns
    \/ ListPromptsFails
    \/ ExitScope
    \/ ExitStackCloses

SpecScope == Init /\ [][NextScope]_vars

(***************************************************************************)
(* The registry used while and after its scope is left: connect_all, the   *)
(* exit of the scope, and call_tool, get_prompt and read_resource on the   *)
(* client object, which outlives the scope.                                *)
(***************************************************************************)
NextConcurrent ==
    \/ ConnectAllRaises
    \/ ConnectAll
    \/ StdioClientOpens
    \/ StdioClientFails
    \/ ClientSessionOpens
    \/ ClientSessionFails
    \/ InitializeReturns
    \/ InitializeFails
    \/ ListToolsReturns
    \/ ListResourcesReturns
    \/ ListResourceTemplatesReturns
    \/ ListPromptsReturns
    \/ StartCallTool
    \/ StartGetPrompt
    \/ StartReadResource
    \/ SessionAnswers
    \/ TaskTakesResult

SpecConcurrent == Init /\ [][NextConcurrent]_vars

NextReleased ==
    \/ ConnectAllRaises
    \/ ConnectAll
    \/ StdioClientOpens
    \/ StdioClientFails
    \/ ClientSessionOpens
    \/ ClientSessionFails
    \/ InitializeReturns
    \/ InitializeFails
    \/ ListToolsReturns
    \/ ListResourcesReturns
    \/ ListResourceTemplatesReturns
    \/ ListPromptsReturns
    \/ ExitScope
    \/ ExitStackCloses
    \/ CallTool
    \/ GetPrompt
    \/ ReadResource
    \/ TakeResult

SpecReleased == Init /\ [][NextReleased]_vars

(***************************************************************************)
(* The functions of src/src/mcp_multi_server/utils.py.  They are pure: a   *)
(* call is recorded in util with its arguments and what it returned.       *)
(***************************************************************************)
Slash == "/"
UtilChars == {"a", Colon, Slash}

\* f"{server_name}:{uri}"
format_namespace_uri(name, uri) == name \o <<Colon>> \o uri

\* the string is split at its last colon: namespaced_uri.rsplit(":", 1)
parse_namespace_uri_rsplit(namespaced_uri) ==
    IF HasColon(namespaced_uri)
    THEN <<Some(SubSeq(namespaced_uri, 1, LastColon(namespaced_uri) - 1)),
           SubSeq(namespaced_uri, LastColon(namespaced_uri) + 1, Len(namespaced_uri))>>
    ELSE <<None, namespaced_uri>>

\* split(":", 1) of a string that holds a colon has two parts
parse_namespace_uri(namespaced_uri) ==
    IF HasColon(namespaced_uri)
    THEN <<Some(SplitColon(namespaced_uri)[1]), SplitColon(namespaced_uri)[2]>>
    ELSE <<None, namespaced_uri>>

UtilIdle == <<registry, stack, pc, pending, server_name, caps, connect_result, env,
              focus, budget, released, last>>

FormatNamespaceUri ==
    /\ util = NoUtil
    /\ \E name \in Strings({"a", Colon}, MaxPrefixLen), uri \in Strings(UtilChars, MaxSuffixLen) :
         util' = [NoUtil EXCEPT !.fn = "format_namespace_uri", !.args = <<name, uri>>,
                                !.returned = format_namespace_uri(name, uri)]
    /\ UNCHANGED UtilIdle

\* the string parsed is any short one, or the one format_namespace_uri just returned
ParseNamespaceUri ==
    /\ \/ /\ util = NoUtil
          /\ \E namespaced_uri \in Strings(UtilChars, MaxUtilLen) :
               util' = [NoUtil EXCEPT !.fn = "parse_namespace_uri",
                                      !.args = <<namespaced_uri>>,
                                      !.returned = parse_namespace_uri(namespaced_uri)]
       \/ /\ util.fn = "format_namespace_uri"
          /\ util' = [NoUtil EXCEPT !.fn = "parse_namespace_uri",
                                    !.args = <<util.returned>>,
                                    !.returned = parse_namespace_uri(util.returned),
                                    !.after = util.args]
    /\ UNCHANGED UtilIdle

\* mcp.types.Tool, as far as the conversion reads it
UtilTools ==
    [name : ToolNames, description : {None, Some("d")}, inputSchema : {"object", "empty"}]

\* tools without a description are left out
mcp_tools_to_openai_format_described(tools) ==
    LET described == SelectSeq(tools, LAMBDA tool : ~IsNone(tool.description))
    IN  [i \in 1..Len(described) |->
           [type |-> "function",
            function |-> [name |-> described[i].name,
                          description |-> described[i].description,
                          parameters |-> described[i].inputSchema]]]

mcp_tools_to_openai_format(tools) ==
    [i \in 1..Len(tools) |->
       [type |-> "function",
        function |-> [name |-> tools[i].name,
                      description |-> tools[i].description,
                      parameters |-> tools[i].inputSchema]]]

McpToolsToOpenaiFormat ==
    /\ util = NoUtil
    /\ \E tools \in SeqsUpTo(UtilTools, MaxTools) :
         util' = [NoUtil EXCEPT !.fn = "mcp_tools_to_openai_format", !.args = <<tools>>,
                                !.returned = mcp_tools_to_openai_format(tools)]
    /\ UNCHANGED UtilIdle

LeftBrace == "{"
RightBrace == "}"
Space == " "
VarNames == {<<"a">>, <<"b">>}
Values == {<<>>, <<"b">>, <<Space>>, <<LeftBrace, "b", RightBrace>>}

\* a template is made of characters and of placeholders {var}
Pieces == {<<"a">>, <<LeftBrace>>, <<RightBrace>>} \cup {<<LeftBrace>> \o v \o <<RightBrace>> : v \in VarNames}

RECURSIVE Concat(_)
Concat(seqs) == IF seqs = <<>> THEN <<>> ELSE Head(seqs) \o Concat(Tail(seqs))

Templates == {Concat(pieces) : pieces \in SeqsUpTo(Pieces, MaxPieces)}

\* a dict of str to str, in insertion order
Variables ==
    {m \in SeqsUpTo(VarNames \X Values, MaxVars) :
       \A i, j \in 1..Len(m) : i # j => m[i][1] # m[j][1]}

\* urllib.parse.quote(value, safe=""): letters stay, any other character becomes
\* a percent sign and its two hexadecimal digits
QuoteChar(c) ==
    CASE c = Space -> <<"%", "2", "0">>
      [] c = LeftBrace -> <<"%", "7", "B">>
      [] c = RightBrace -> <<"%", "7", "D">>
      [] OTHER -> <<c>>

quote(value) == Concat([i \in 1..Len(value) |-> QuoteChar(value[i])])

\* str.replace(old, new) for a non-empty old: the occurrences of old are found from
\* the left and do not overlap
RECURSIVE Replace(_, _, _)
Replace(str, old, new) ==
    IF Len(str) < Len(old) THEN str
    ELSE IF SubSeq(str, 1, Len(old)) = old
    THEN new \o Replace(SubSeq(str, Len(old) + 1, Len(str)), old, new)
    ELSE <<Head(str)>> \o Replace(Tail(str), old, new)

\* the values are put in as they are
RECURSIVE substitute_template_variables_unquoted(_, _)
substitute_template_variables_unquoted(uri_template, variables) ==
    IF variables = <<>> THEN uri_template
    ELSE substitute_template_variables_unquoted(
             Replace(uri_template, <<LeftBrace>> \o Head(variables)[1] \o <<RightBrace>>,
                     Head(variables)[2]),
             Tail(variables))

\* for var, value in variables.items(): result = result.replace("{var}", quote(value))
RECURSIVE substitute_template_variables(_, _)
substitute_template_variables(uri_template, variables) ==
    IF variables = <<>> THEN uri_template
    ELSE substitute_template_variables(
             Replace(uri_template, <<LeftBrace>> \o Head(variables)[1] \o <<RightBrace>>,
                     quote(Head(variables)[2])),
             Tail(variables))

SubstituteTemplateVariables ==
    /\ util = NoUtil
    /\ \E uri_template \in Templates, variables \in Variables :
         util' = [NoUtil EXCEPT !.fn = "substitute_template_variables",
                                !.args = <<uri_template, variables>>,
                                !.returned = substitute_template_variables(uri_template,
                                                                           variables)]
    /\ UNCHANGED UtilIdle

InitUtils == InitWith(0) /\ focus = {}

NextUtils ==
    \/ FormatNamespaceUri
    \/ ParseNamespaceUri
    \/ McpToolsToOpenaiFormat
    \/ SubstituteTemplateVariables

SpecUtils == InitUtils /\ [][NextUtils]_vars

(***************************************************************************)
(* Properties                                                              *)
(***************************************************************************)
RangeOf(seq) == {seq[i] : i \in 1..Len(seq)}

\* connect_all has returned, and it was the first on this registry
Completed == env.runs = 1 /\ connect_result = "returned"

Configured == Get(env.config)

ListOps == {"list_tools", "list_prompts", "list_resources", "list_resource_templates"}

ListingReturned == last.op \in ListOps /\ last.outcome = "returned"

ServerNameOf(entry) == Get(entry.meta).serverName

\* C1: on a fresh registry connect_all raises only when the configuration cannot be
\* loaded, whichever servers fail to open or to initialize; once it has returned,
\* sessions and capabilities hold exactly the configured servers that did not fail,
\* no routing table entry points to a failed server and no listing holds an entry
\* attributed to one.
C1_FailedServersAbsent ==
    /\ env.runs = 1 /\ connect_result = "raised" => IsNone(env.config)
    /\ Completed =>
         /\ DOMAIN sessions = RangeOf(Configured) \ env.skipped
         /\ CapKeys(capabilities) = RangeOf(Configured) \ env.skipped
         /\ \A n \in DOMAIN tool_to_server : tool_to_server[n] \notin env.skipped
         /\ \A n \in DOMAIN prompt_to_server : prompt_to_server[n] \notin env.skipped
         /\ ListingReturned =>
              \A i \in 1..Len(last.listing) : ServerNameOf(last.listing[i]) \notin env.skipped

C1_Witness ==
    /\ Completed
    /\ Len(Configured) = 2
    /\ Cardinality(env.skipped) = 1
    /\ Cardinality(DOMAIN sessions) = 1
    /\ last.op = "list_tools"
    /\ Len(last.listing) > 0

AdvertisesTool(server, n) ==
    /\ server \in CapKeys(capabilities)
    /\ ~IsNone(CapOf(capabilities, server).tools)
    /\ n \in NamesOf(Get(CapOf(capabilities, server).tools))

AdvertisesPrompt(server, n) ==
    /\ server \in CapKeys(capabilities)
    /\ ~IsNone(CapOf(capabilities, server).prompts)
    /\ n \in NamesOf(Get(CapOf(capabilities, server).prompts))

\* C2: once connect_all has returned on a fresh registry, a tool name (a prompt name)
\* that servers advertise is bound to the one of them that comes last in the
\* configuration order: to B for the order A, B and to A for the order B, A.
C2_LastRegistrationWins ==
    Completed =>
      \A j \in 1..Len(Configured) :
        /\ \A n \in ToolNames :
             /\ AdvertisesTool(Configured[j], n)
             /\ \A k \in (j + 1)..Len(Configured) : ~AdvertisesTool(Configured[k], n)
             => n \in DOMAIN tool_to_server /\ tool_to_server[n] = Configured[j]
        /\ \A n \in PromptNames :
             /\ AdvertisesPrompt(Configured[j], n)
             /\ \A k \in (j + 1)..Len(Configured) : ~AdvertisesPrompt(Configured[k], n)
             => n \in DOMAIN prompt_to_server /\ prompt_to_server[n] = Configured[j]

C2_Witness ==
    /\ Completed
    /\ Len(Configured) = 2
    /\ AdvertisesTool(Configured[1], "x")
    /\ AdvertisesTool(Configured[2], "x")
    /\ tool_to_server["x"] = Configured[2]

\* the call ended in an error-flagged result that no session was asked for
ErrorResult(message) ==
    /\ last.outcome = "returned"
    /\ last.is_error
    /\ last.message = message
    /\ IsNone(last.target)
    /\ IsNone(last.handle)

\* an exception of the router left the call, and no session was asked
Raised(message) ==
    /\ last.outcome = "raised"
    /\ last.message = message
    /\ IsNone(last.target)
    /\ IsNone(last.handle)

\* the call reached the session of server, and no other
ForwardedTo(server) ==
    /\ last.target = Some(server)
    /\ server \in DOMAIN sessions
    /\ last.handle = Some(sessions[server])

\* C3: call_tool with no server given, for a name with no binding in tool_to_server,
\* returns an error-flagged result saying "Unknown tool"; it does not raise and it
\* calls no session.
C3_UnknownToolIsErrorResult ==
    /\ last.op = "call_tool"
    /\ IsNone(last.server_name)
    /\ last.name \notin DOMAIN tool_to_server
    => ErrorResult("Unknown tool")

C3_Witness ==
    /\ last.op = "call_tool"
    /\ IsNone(last.server_name)
    /\ last.name \notin DOMAIN tool_to_server
    /\ DOMAIN tool_to_server # {}
    /\ pc = "idle"

C5_PromptRoutingFailuresRaise ==
    last.op = "get_prompt" =>
      /\ last.outcome = "returned" => ~IsNone(last.target) /\ ~last.is_error
      /\ IsNone(last.server_name) /\ last.name \notin DOMAIN prompt_to_server
         => Raised("Unknown prompt")
      /\ ~IsNone(last.server_name) =>
           LET P == Get(last.server_name)
           IN  IF P \notin DOMAIN sessions THEN Raised("Unknown server")
               ELSE P \in CapKeys(capabilities) =>
                      /\ IsNone(CapOf(capabilities, P).prompts) => Raised("has no prompts")
                      /\ ~IsNone(CapOf(capabilities, P).prompts)
                         /\ ~AdvertisesPrompt(P, last.name)
                         => Raised("not found in server")

C5_Witness ==
    /\ last.op = "get_prompt"
    /\ IsNone(last.server_name)
    /\ last.name \notin DOMAIN prompt_to_server
    /\ DOMAIN prompt_to_server # {}
    /\ Raised("Unknown prompt")

\* the read the call records: read_resource(uri) with no server given
ReadWithoutServer == last.op = "read_resource" /\ IsNone(last.server_name)

\* the text before the first colon of the URI is the name of a connected server
UnderServerName(uri) == HasColon(uri) /\ SplitColon(uri)[1] \in DOMAIN sessions

\* C6 as stated: read_resource(uri) with no server given, where the text before the
\* first colon of uri is the name of a server in sessions, is forwarded to exactly that
\* server with the URI equal to everything after that first colon.
C6_ForwardedWithRemainder ==
    ReadWithoutServer /\ UnderServerName(last.uri) =>
      /\ ForwardedTo(SplitColon(last.uri)[1])
      /\ last.sent_uri = SplitColon(last.uri)[2]

\* C6 amended: under the same condition the remainder after the first colon (later
\* colons kept) is parsed as a URL; when it is one, the call is forwarded to exactly
\* that server with the parsed URL, which is the remainder with its scheme in lower
\* case; when it is none, a validation error is raised and no session is called.
C6_ForwardedWithParsedRemainder ==
    ReadWithoutServer /\ UnderServerName(last.uri) =>
      LET P == SplitColon(last.uri)[1]
          rest == SplitColon(last.uri)[2]
      IN  IF IsNone(AnyUrl(rest)) THEN Raised("ValidationError")
          ELSE /\ ForwardedTo(P)
               /\ last.sent_uri = Get(AnyUrl(rest))
               /\ Len(last.sent_uri) = Len(rest)
               /\ \A i \in 1..Len(rest) :
                    /\ ToLower(last.sent_uri[i]) = ToLower(rest[i])
                    /\ i >= FirstColon(rest) => last.sent_uri[i] = rest[i]

C6_Witness ==
    /\ ReadWithoutServer
    /\ UnderServerName(last.uri)
    /\ Cardinality(DOMAIN sessions) = 2
    /\ ForwardedTo(SplitColon(last.uri)[1])
    /\ HasColon(SplitColon(last.uri)[2])
    /\ last.sent_uri = SplitColon(last.uri)[2]
    /\ last.outcome = "returned"

\* C7: read_resource(uri) with no server given raises "Must specify server_name" and
\* calls no session whenever uri has no colon or the text before its first colon is
\* not the name of a server in sessions, as for a URL whose scheme is no server's name
\* while another server is connected.
C7_UnnamespacedReadRaises ==
    ReadWithoutServer /\ ~UnderServerName(last.uri) => Raised("Must specify server_name")

C7_Witness ==
    /\ ReadWithoutServer
    /\ ~IsNone(AnyUrl(last.uri))
    /\ SplitColon(last.uri)[1] \notin DOMAIN sessions
    /\ DOMAIN sessions # {}
    /\ connect_result = "returned"
    /\ Raised("Must specify server_name")

AdvertisesResource(server, u) ==
    /\ server \in CapKeys(capabilities)
    /\ ~IsNone(CapOf(capabilities, server).resources)
    /\ \E i \in 1..Len(Get(CapOf(capabilities, server).resources)) :
         Get(CapOf(capabilities, server).resources)[i].uri = u

\* C8 as stated: read_resource(uri, server_name=P) always goes to P with uri passed
\* through as it is, whatever server the text before its first colon names and
\* whatever P's snapshot lists; when P is not in sessions it raises "Unknown server"
\* and calls no session.
C8_ExplicitServerPassesUriThrough ==
    last.op = "read_resource" /\ ~IsNone(last.server_name) =>
      LET P == Get(last.server_name)
      IN  IF P \notin DOMAIN sessions THEN Raised("Unknown server")
          ELSE ForwardedTo(P) /\ last.sent_uri = last.uri

\* C8 amended: read_resource(uri, server_name=P) never goes to a server other than P
\* and strips nothing from uri: when P is not in sessions it raises "Unknown server"
\* and calls no session; otherwise the whole of uri is parsed as a URL, and the call
\* is forwarded to P with the parsed URL (uri with its scheme in lower case) when it
\* is one, whatever P's snapshot lists, and raises a validation error, calling no
\* session, when it is none.
C8_ExplicitServerParsesWholeUri ==
    last.op = "read_resource" /\ ~IsNone(last.server_name) =>
      LET P == Get(last.server_name)
      IN  IF P \notin DOMAIN sessions THEN Raised("Unknown server")
          ELSE IF IsNone(AnyUrl(last.uri)) THEN Raised("ValidationError")
          ELSE /\ ForwardedTo(P)
               /\ last.sent_uri = Get(AnyUrl(last.uri))
               /\ Len(last.sent_uri) = Len(last.uri)
               /\ \A i \in 1..Len(last.uri) :
                    /\ ToLower(last.sent_uri[i]) = ToLower(last.uri[i])
                    /\ i >= FirstColon(last.uri) => last.sent_uri[i] = last.uri[i]

C8_Witness ==
    /\ last.op = "read_resource"
    /\ ~IsNone(last.server_name)
    /\ UnderServerName(last.uri)
    /\ SplitColon(last.uri)[1] # Get(last.server_name)
    /\ ForwardedTo(Get(last.server_name))
    /\ last.sent_uri = last.uri
    /\ Get(last.server_name) \in CapKeys(capabilities)
    /\ \A u \in RequestUris : ~AdvertisesResource(Get(last.server_name), u)

\* C9: for every connected server p and every resource URI u of p's snapshot,
\* list_resources() lists the resource with the URI p:u, and read_resource of that
\* listed URI with no server given is forwarded to p with the URI u.
C9_NamespacingRoundTrip ==
    \A p \in DOMAIN sessions \cap CapKeys(capabilities) :
      \A u \in Uris :
        AdvertisesResource(p, u) =>
          /\ last.op = "list_resources" /\ last.outcome = "returned" /\ last.use_namespace
             => \E i \in 1..Len(last.listing) :
                  /\ last.listing[i].uri = Namespaced(p, u)
                  /\ ServerNameOf(last.listing[i]) = p
          /\ ReadWithoutServer /\ last.uri = Namespaced(p, u)
             => ForwardedTo(p) /\ last.sent_uri = u

\* the entries of the kind that op lists in the snapshot c
SnapshotEntries(op, c) ==
    LET recorded == CASE op = "list_tools" -> c.tools
                      [] op = "list_prompts" -> c.prompts
                      [] op = "list_resources" -> c.resources
                      [] OTHER -> c.resource_templates
    IN  IF IsNone(recorded) THEN <<>> ELSE Get(recorded)

\* the number of entries of the servers stored before the i-th
RECURSIVE CountBefore(_, _)
CountBefore(op, i) ==
    IF i = 1 THEN 0
    ELSE CountBefore(op, i - 1) + Len(SnapshotEntries(op, capabilities[i - 1]))

\* listed is the snapshot entry of server as the listing shows it
ListedAs(op, entry, listed, server, use_namespace) ==
    /\ listed.name = entry.name
    /\ ServerNameOf(listed) = server
    /\ op = "list_resources" =>
         listed.uri = IF use_namespace THEN Namespaced(server, entry.uri) ELSE entry.uri
    /\ op = "list_resource_templates" =>
         listed.uriTemplate = IF use_namespace THEN Namespaced(server, entry.uriTemplate)
                              ELSE entry.uriTemplate

PositionIn(seq, x) == CHOOSE i \in 1..Len(seq) : seq[i] = x

\* C10: each list_* operation returns the concatenation of the snapshots' entries of
\* its kind, servers in the order connect_all stored them (the configuration order of
\* those that connected) and entries in snapshot order: the length is the sum of the
\* servers' counts, a server whose kind is absent or empty contributes nothing, and
\* every entry, colliding names included, appears under its server with its name
\* unchanged.
C10_ListingsConcatenate ==
    /\ ListingReturned =>
         /\ Len(last.listing) = CountBefore(last.op, Len(capabilities) + 1)
         /\ \A i \in 1..Len(capabilities) :
              \A k \in 1..Len(SnapshotEntries(last.op, capabilities[i])) :
                ListedAs(last.op, SnapshotEntries(last.op, capabilities[i])[k],
                         last.listing[CountBefore(last.op, i) + k],
                         capabilities[i].name, last.use_namespace)
    /\ Completed =>
         \A i, j \in 1..Len(capabilities) :
           i < j => PositionIn(Configured, capabilities[i].name)
                    < PositionIn(Configured, capabilities[j].name)

C10_Witness ==
    /\ Completed
    /\ last.op = "list_tools"
    /\ Len(capabilities) = 2
    /\ Len(last.listing) = 2
    /\ last.listing[1].name = last.listing[2].name
    /\ ServerNameOf(last.listing[1]) = Configured[1]
    /\ ServerNameOf(last.listing[2]) = Configured[2]

\* C11: a list_* call made right after a call of the same method with the same
\* arguments, no connect_all in between, returns the same entries in the same order,
\* however many times it is repeated; the namespaced URIs and URI templates of a
\* listing are the server's name, a colon and a URI as a server sent it, never a URI
\* that was namespaced before.
C11_ListingIdempotent ==
    ListingReturned =>
      /\ ~IsNone(last.previous) => last.listing = Get(last.previous)
      /\ last.use_namespace =>
           \A i \in 1..Len(last.listing) :
             /\ last.op = "list_resources" =>
                  \E u \in Uris :
                    last.listing[i].uri = Namespaced(ServerNameOf(last.listing[i]), u)
             /\ last.op = "list_resource_templates" =>
                  \E u \in Uris :
                    last.listing[i].uriTemplate = Namespaced(ServerNameOf(last.listing[i]), u)

C11_Witness ==
    /\ last.op = "list_resources"
    /\ last.outcome = "returned"
    /\ last.use_namespace
    /\ ~IsNone(last.previous)
    /\ Len(Get(last.previous)) = 2
    /\ last.listing = Get(last.previous)

\* C12: each of the four list_* methods raises ValueError, returning nothing, when it
\* is given a cursor that is not None, the empty string included, whatever the
\* registry holds; with no cursor it returns a result whose nextCursor is None.
C12_CursorRefused ==
    last.op \in ListOps =>
      IF ~IsNone(last.cursor)
      THEN Raised("ValueError") /\ last.listing = <<>>
      ELSE last.outcome = "returned" /\ IsNone(last.nextCursor)

C12_Witness ==
    /\ last.op \in ListOps
    /\ last.cursor = Some(<<>>)
    /\ Raised("ValueError")
    /\ capabilities # <<>>
    /\ SnapshotEntries(last.op, capabilities[1]) # <<>>

\* C13: every entry of every listing names in its meta a server that has a snapshot,
\* and is an entry of that snapshot with the name unchanged; its URI (URI template) is
\* the snapshot's own when use_namespace is off and the server's name, a colon and
\* the snapshot's own when it is on.
C13_ProvenanceOnEveryEntry ==
    ListingReturned =>
      \A i \in 1..Len(last.listing) :
        LET p == ServerNameOf(last.listing[i])
        IN  /\ p \in CapKeys(capabilities)
            /\ \E k \in 1..Len(SnapshotEntries(last.op, CapOf(capabilities, p))) :
                 ListedAs(last.op, SnapshotEntries(last.op, CapOf(capabilities, p))[k],
                          last.listing[i], p, last.use_namespace)

C13_Witness ==
    /\ last.op = "list_resources"
    /\ last.outcome = "returned"
    /\ ~last.use_namespace
    /\ Len(last.listing) = 2
    /\ ServerNameOf(last.listing[1]) # ServerNameOf(last.listing[2])
    /\ last.listing[1].uri \in Uris

\* the entry of the listing that the k-th entry of the i-th stored snapshot became
ListedEntry(i, k) == last.listing[CountBefore(last.op, i) + k]

\* C14 as stated: every key of the meta that a server sent with an entry is in the
\* meta of the listed entry, with the value the server sent.
C14_EveryMetaKeyKept ==
    ListingReturned =>
      \A i \in 1..Len(capabilities) :
        \A k \in 1..Len(SnapshotEntries(last.op, capabilities[i])) :
          LET sent == SnapshotEntries(last.op, capabilities[i])[k].meta
          IN  ~IsNone(sent) =>
                \A key \in DOMAIN Get(sent) :
                  /\ key \in DOMAIN Get(ListedEntry(i, k).meta)
                  /\ Get(ListedEntry(i, k).meta)[key] = Get(sent)[key]

\* C14 amended: every key other than "serverName" of the meta that a server sent with
\* an entry is in the meta of the listed entry, with the value the server sent; the
\* key "serverName" of the listed entry holds the name of the server the entry was
\* listed from, whatever the server sent under that key.
C14_OtherMetaKeysKept ==
    ListingReturned =>
      \A i \in 1..Len(capabilities) :
        \A k \in 1..Len(SnapshotEntries(last.op, capabilities[i])) :
          LET sent == SnapshotEntries(last.op, capabilities[i])[k].meta
          IN  /\ Get(ListedEntry(i, k).meta)["serverName"] = capabilities[i].name
              /\ ~IsNone(sent) =>
                   \A key \in DOMAIN Get(sent) \ {"serverName"} :
                     /\ key \in DOMAIN Get(ListedEntry(i, k).meta)
                     /\ Get(ListedEntry(i, k).meta)[key] = Get(sent)[key]

C14_Witness ==
    /\ last.op = "list_tools"
    /\ last.outcome = "returned"
    /\ Len(last.listing) = 2
    /\ DOMAIN Get(last.listing[2].meta) = {"note", "serverName"}
    /\ Get(last.listing[2].meta)["note"] = SentMeta["note"]
    /\ Get(last.listing[2].meta)["serverName"] # SentMeta["serverName"]

\* C15: when call_tool, read_resource or get_prompt has reached a session and the
\* session raises, the caller gets that exception: the call does not return, no
\* error-flagged result is made of it, and sessions, capabilities and both routing
\* tables are after the call what they were before it.
C15_SessionFailurePropagates ==
    [][last' # last /\ last'.response = "raises" =>
         /\ last'.outcome = "raised"
         /\ last'.message = "server"
         /\ ~last'.is_error
         /\ registry' = registry]_vars

C15_Witness ==
    /\ last.op = "call_tool"
    /\ last.response = "raises"
    /\ last.outcome = "raised"
    /\ IsNone(last.server_name)
    /\ ForwardedTo(tool_to_server[last.name])

\* C16: a connect_all whose configuration cannot be loaded raises before anything is
\* opened: no context is entered, no server is taken up, and sessions, capabilities
\* and both routing tables stay what they were, also when an earlier connect_all had
\* filled them.
C16_ConfigFailureTouchesNothing ==
    [][env'.runs = env.runs + 1 /\ IsNone(env'.config) =>
         /\ connect_result' = "raised"
         /\ pc' = "idle"
         /\ stack' = stack
         /\ registry' = registry]_vars

C16_Witness ==
    /\ env.runs = 2
    /\ connect_result = "raised"
    /\ IsNone(env.config)
    /\ Cardinality(DOMAIN sessions) = 2
    /\ DOMAIN tool_to_server # {}

\* what the snapshot c records for a kind
Recorded(c, kind) ==
    CASE kind = "tools" -> c.tools
      [] kind = "resources" -> c.resources
      [] kind = "resource_templates" -> c.resource_templates
      [] OTHER -> c.prompts

\* _connect_server has returned for the server s, whose initialize returned
Discovered(s) == s \in env.initialized /\ (pc = "idle" \/ s # server_name)

\* C17: in the first connect_all of a registry, a server whose open and initialize
\* succeeded is in sessions and has a snapshot whatever its four capability queries
\* did; each of the four was made; the snapshot records a kind exactly when its query
\* returned; and a tool (prompt) is bound to the server only when its tools (prompts)
\* query returned and listed it.
C17_QueriesIndependent ==
    env.runs = 1 =>
      \A s \in env.initialized :
        Discovered(s) =>
          /\ s \in DOMAIN sessions
          /\ s \in CapKeys(capabilities)
          /\ \A kind \in Kinds :
               /\ <<s, kind>> \in env.queried
               /\ IsNone(Recorded(CapOf(capabilities, s), kind)) <=> <<s, kind>> \in env.failed
          /\ \A n \in DOMAIN tool_to_server :
               tool_to_server[n] = s => <<s, "tools">> \notin env.failed /\ AdvertisesTool(s, n)
          /\ \A n \in DOMAIN prompt_to_server :
               prompt_to_server[n] = s
               => <<s, "prompts">> \notin env.failed /\ AdvertisesPrompt(s, n)

C17_Witness ==
    /\ Completed
    /\ \E s \in env.initialized :
         /\ {kind \in Kinds : <<s, kind>> \in env.failed} = {"tools", "resource_templates"}
         /\ IsNone(CapOf(capabilities, s).tools)
         /\ ~IsNone(CapOf(capabilities, s).resources)
         /\ \E n \in DOMAIN prompt_to_server : prompt_to_server[n] = s

ReleasedInReverse ==
    /\ pc \in {"exiting", "closed"} =>
         \A i \in 1..Len(released) : released[i] = Len(stack) - i + 1
    /\ pc = "closed" => Len(released) = Len(stack)

\* C19: no context that connect_all entered leaves the AsyncExitStack before the
\* scope is left, whatever became of its server; when the scope is left, at any point
\* and for any reason, the contexts are closed in the reverse of the order they were
\* entered in, and when the exit is over every one of them is closed, those of
\* servers whose initialize failed included.
C19_ReleasedInReverseOrder ==
    [][/\ Len(stack') >= Len(stack)
       /\ SubSeq(stack', 1, Len(stack)) = stack
       /\ ReleasedInReverse']_vars

C19_Witness ==
    /\ pc = "closed"
    /\ Len(stack) = 4
    /\ Len(released) = 4
    /\ stack[2].server \in env.skipped
    /\ stack[4].server \in DOMAIN sessions

\* C20: no call of list_tools, list_prompts, list_resources, list_resource_templates,
\* call_tool, read_resource or get_prompt changes sessions, capabilities or a routing
\* table, whether it returns a result, returns an error-flagged result or raises.
C20_CallsLeaveRegistry ==
    [][last' # last /\ last' # NoCall => registry' = registry]_vars

C20_Witness ==
    /\ Completed
    /\ last.op = "call_tool"
    /\ ~IsNone(last.server_name)
    /\ ForwardedTo(Get(last.server_name))
    /\ last.name \in DOMAIN tool_to_server
    /\ tool_to_server[last.name] # Get(last.server_name)

NoNamespace(s) ==
    \/ ~HasColon(s)
    \/ /\ FirstColon(s) + 2 <= Len(s)
       /\ s[FirstColon(s) + 1] = Slash
       /\ s[FirstColon(s) + 2] = Slash

\* C22: of a string with no namespace in it, a plain scheme URI such as
\* "file:///path/to/file.txt" included, parse_namespace_uri returns None and the
\* string unchanged.
C22_NoNamespaceGivesNone ==
    util.fn = "parse_namespace_uri" /\ NoNamespace(util.args[1])
    => util.returned = <<None, util.args[1]>>

\* C24: mcp_tools_to_openai_format returns as many elements as it was given tools, in
\* the same order; each has the type "function" and a function record with the
\* tool's name, description and input schema (as parameters); of the empty list it
\* returns the empty list.
C24_OpenaiFormatKeepsTools ==
    util.fn = "mcp_tools_to_openai_format" =>
      /\ Len(util.returned) = Len(util.args[1])
      /\ \A i \in 1..Len(util.args[1]) :
           /\ util.returned[i].type = "function"
           /\ util.returned[i].function.name = util.args[1][i].name
           /\ util.returned[i].function.description = util.args[1][i].description
           /\ util.returned[i].function.parameters = util.args[1][i].inputSchema

C24_Witness ==
    /\ util.fn = "mcp_tools_to_openai_format"
    /\ Len(util.args[1]) = 2
    /\ Len(util.returned) = 2
    /\ util.args[1][1].name # util.args[1][2].name
    /\ IsNone(util.args[1][1].description)
    /\ util.returned[2].function.name = util.args[1][2].name

IsPlaceholder(piece) == Len(piece) > 1
VarOf(piece) == SubSeq(piece, 2, Len(piece) - 1)
Keys(variables) == {variables[i][1] : i \in 1..Len(variables)}
ValueOf(variables, var) == variables[CHOOSE i \in 1..Len(variables) : variables[i][1] = var][2]

\* the pieces are not three characters that read as a placeholder
Canonical(pieces) ==
    \A i \in 1..Len(pieces) :
      ~(/\ i + 2 <= Len(pieces)
        /\ pieces[i] = <<LeftBrace>>
        /\ pieces[i + 1] = <<"a">>
        /\ pieces[i + 2] = <<RightBrace>>)

\* no brace that stands alone opens before one that stands alone closes
NoStrayPair(pieces) ==
    \A i, j \in 1..Len(pieces) :
      i < j => ~(pieces[i] = <<LeftBrace>> /\ pieces[j] = <<RightBrace>>)

\* the template with the placeholders of the mapping replaced by their values
Filled(pieces, variables) ==
    Concat([i \in 1..Len(pieces) |->
              IF IsPlaceholder(pieces[i]) /\ VarOf(pieces[i]) \in Keys(variables)
              THEN ValueOf(variables, VarOf(pieces[i])) ELSE pieces[i]])

\* the same with the percent-encoded values
FilledQuoted(pieces, variables) ==
    Concat([i \in 1..Len(pieces) |->
              IF IsPlaceholder(pieces[i]) /\ VarOf(pieces[i]) \in Keys(variables)
              THEN quote(ValueOf(variables, VarOf(pieces[i]))) ELSE pieces[i]])

\* C25 (as stated): substitute_template_variables replaces every {var} whose var is
\* in the mapping by the value of var and leaves every other placeholder and every
\* unmatched brace as it is; with an empty mapping the template comes back unchanged.
C25_PlaceholdersReplacedByValues ==
    util.fn = "substitute_template_variables" =>
      \A pieces \in SeqsUpTo(Pieces, MaxPieces) :
        Concat(pieces) = util.args[1] /\ Canonical(pieces)
        => util.returned = Filled(pieces, util.args[2])

\* C25 (amended): substitute_template_variables replaces every {var} whose var is in
\* the mapping by the percent-encoding of the value of var (quote with safe=""), and
\* leaves every other placeholder and every brace that stands alone as it is,
\* provided no brace standing alone opens before another one closes (the
\* replacements are made one after the other on the text so far, so a placeholder
\* that an earlier replacement completes between such braces is replaced too); with
\* an empty mapping, or no {var} of the mapping in it, the template comes back
\* unchanged.
C25_PlaceholdersReplacedByQuotedValues ==
    util.fn = "substitute_template_variables" =>
      /\ \A pieces \in SeqsUpTo(Pieces, MaxPieces) :
           Concat(pieces) = util.args[1] /\ NoStrayPair(pieces)
           => util.returned = FilledQuoted(pieces, util.args[2])
      /\ util.args[2] = <<>> => util.returned = util.args[1]
      /\ (\A var \in Keys(util.args[2]) :
            \A i \in 1..Len(util.args[1]) :
              i + Len(var) + 1 <= Len(util.args[1])
              => SubSeq(util.args[1], i, i + Len(var) + 1)
                 # <<LeftBrace>> \o var \o <<RightBrace>>)
         => util.returned = util.args[1]

C25_Witness ==
    /\ util.fn = "substitute_template_variables"
    /\ util.args[1] = <<LeftBrace, LeftBrace, "a", RightBrace, LeftBrace, "b", RightBrace>>
    /\ util.args[2] = <<<<<<"a">>, <<Space>>>>>>
    /\ util.returned = <<LeftBrace, "%", "2", "0", LeftBrace, "b", RightBrace>>

\* C23: a call_tool that is routed to a session calls it with the tool name, the
\* arguments, the timeout and the progress callback the caller passed, absent ones
\* absent, and what the session returns is what call_tool returns: a result, or a
\* result the server flagged as an error, with no message of the router in it.
C23_ToolCallForwardedUnmodified ==
    last.op = "call_tool" /\ ~IsNone(last.target) =>
      /\ last.sent_arguments
           = Some([name |-> last.name,
                   arguments |-> Get(last.arguments).arguments,
                   read_timeout_seconds |-> Get(last.arguments).read_timeout_seconds,
                   progress_callback |-> Get(last.arguments).progress_callback])
      /\ last.response # "raises" =>
           /\ last.outcome = "returned"
           /\ last.is_error = (last.response = "error result")
           /\ last.message = ""

C23_Witness ==
    /\ last.op = "call_tool"
    /\ ~IsNone(last.target)
    /\ last.response = "error result"
    /\ last.is_error
    /\ Get(last.sent_arguments).read_timeout_seconds = Some("5s")
    /\ Get(last.sent_arguments).progress_callback = Some("callback")

\* the awaits of _connect_server in the order of the code
Steps ==
    <<"stdio_client", "ClientSession", "initialize", "list_tools", "list_resources",
      "list_resource_templates", "list_prompts">>

\* _connect_server has returned or raised for the server s
Finished(s) ==
    \/ s \in env.skipped
    \/ /\ s \in CapKeys(capabilities)
       /\ \E i \in 1..Len(env.log) : env.log[i] = <<s, "list_prompts">>

\* C26: connect_all takes the servers one at a time in the order of the
\* configuration: the awaits made for a server start with its stdio_client and follow
\* the order of the code, none is made for a server before _connect_server has
\* returned or raised for every server configured before it, and a server that fails
\* does not keep the ones after it from being taken up.
C26_ServersOneAtATime ==
    ~IsNone(env.config) =>
      /\ \A i \in 1..Len(env.log) :
           /\ env.log[i][1] \in RangeOf(Configured)
           /\ IF i = 1 \/ env.log[i - 1][1] # env.log[i][1]
              THEN /\ env.log[i][2] = "stdio_client"
                   /\ \A k \in 1..(PositionIn(Configured, env.log[i][1]) - 1) :
                        /\ Finished(Configured[k])
                        /\ \E j \in 1..(i - 1) : env.log[j][1] = Configured[k]
                   /\ \A j \in 1..(i - 1) :
                        PositionIn(Configured, env.log[j][1])
                        < PositionIn(Configured, env.log[i][1])
              ELSE PositionIn(Steps, env.log[i][2]) = PositionIn(Steps, env.log[i - 1][2]) + 1
      /\ connect_result = "returned" =>
           \A k \in 1..Len(Configured) :
             /\ Finished(Configured[k])
             /\ \E i \in 1..Len(env.log) : env.log[i] = <<Configured[k], "stdio_client">>

C26_Witness ==
    /\ Completed
    /\ Len(Configured) = 2
    /\ Len(env.log) = 10
    /\ env.log[3] = <<Configured[1], "initialize">>
    /\ Configured[1] \in env.skipped
    /\ env.log[10] = <<Configured[2], "list_prompts">>
    /\ Configured[2] \in DOMAIN sessions

\* C27: within one connect_all no await is made twice for a server: one stdio_client,
\* one ClientSession, one initialize and one query of each of the four kinds at most,
\* each context entered once; and no capability is queried of a server whose
\* stdio_client, ClientSession or initialize raised.
C27_NoRetries ==
    env.runs = 1 =>
      /\ \A i, j \in 1..Len(env.log) : i # j => env.log[i] # env.log[j]
      /\ \A i, j \in 1..Len(stack) : i # j => stack[i] # stack[j]
      /\ \A i \in 1..Len(env.log) :
           PositionIn(Steps, env.log[i][2]) > 3 =>
             /\ env.log[i][1] \notin env.skipped
             /\ env.log[i][1] \in env.initialized
             /\ \E j \in 1..(i - 1) : env.log[j] = <<env.log[i][1], "initialize">>

C27_Witness ==
    /\ Completed
    /\ Len(Configured) = 2
    /\ Configured[1] \in env.skipped
    /\ Len(env.log) = 9
    /\ env.log[2] = <<Configured[1], "ClientSession">>
    /\ env.log[3] = <<Configured[2], "stdio_client">>
    /\ <<Configured[2], "tools">> \in env.failed

\* C28: every collision warning logged during discovery is for a name that was bound
\* to another server than the one being registered: a name that is unbound, or bound
\* to the same server (one that lists a name twice), gives no warning.
C28_WarningsNameTwoServers ==
    \A w \in env.warnings : w.existing_server # w.server_name

\* C29: call_tool with no server returns "Unknown tool" only for a name with no
\* binding in tool_to_server, and get_prompt with no server raises "Unknown prompt"
\* only for a name with no binding in prompt_to_server; with a binding the call goes
\* to the session of the server bound, whatever the name of that server, the empty
\* string included.
C29_UnknownOnlyWithoutBinding ==
    /\ last.op = "call_tool" /\ IsNone(last.server_name) =>
         IF last.name \in DOMAIN tool_to_server
         THEN tool_to_server[last.name] \in DOMAIN sessions
              => ForwardedTo(tool_to_server[last.name])
         ELSE ErrorResult("Unknown tool")
    /\ last.op = "get_prompt" /\ IsNone(last.server_name) =>
         IF last.name \in DOMAIN prompt_to_server
         THEN prompt_to_server[last.name] \in DOMAIN sessions
              => ForwardedTo(prompt_to_server[last.name])
         ELSE Raised("Unknown prompt")

\* the tool (prompt) of the last call is advertised by two servers, the one it is
\* bound to and an earlier one
Shadowed(n) ==
    \/ /\ last.op = "call_tool"
       /\ n \in DOMAIN tool_to_server
       /\ \E a \in CapKeys(capabilities) : a # tool_to_server[n] /\ AdvertisesTool(a, n)
    \/ /\ last.op = "get_prompt"
       /\ n \in DOMAIN prompt_to_server
       /\ \E a \in CapKeys(capabilities) : a # prompt_to_server[n] /\ AdvertisesPrompt(a, n)

BoundTo(n) == IF last.op = "call_tool" THEN tool_to_server[n] ELSE prompt_to_server[n]

Advertises(server, n) ==
    IF last.op = "call_tool" THEN AdvertisesTool(server, n) ELSE AdvertisesPrompt(server, n)

\* C30: when servers A and then B have registered the same tool (prompt) name, a call
\* that names A goes to the session of A, the routing table not being looked at, and
\* a call that names no server goes to the session of B.
C30_OverrideReachesShadowedOwner ==
    Completed /\ last.op \in {"call_tool", "get_prompt"} /\ Shadowed(last.name) =>
      IF IsNone(last.server_name)
      THEN ForwardedTo(BoundTo(last.name))
      ELSE Advertises(Get(last.server_name), last.name) => ForwardedTo(Get(last.server_name))

\* the URI is an absolute one, scheme:rest, and its scheme is the name of a server
\* in sessions
SchemeIsServer(uri) == ~IsNone(AnyUrl(uri)) /\ SplitColon(uri)[1] \in DOMAIN sessions

\* C31 (as stated): read_resource of an absolute URI scheme:rest with no server
\* given, while a server named like the scheme is connected, is forwarded to that
\* server with the URI rest.
C31_SchemeReadForwardedWithRest ==
    ReadWithoutServer /\ SchemeIsServer(last.uri) =>
      /\ ForwardedTo(SplitColon(last.uri)[1])
      /\ last.sent_uri = SplitColon(last.uri)[2]

\* C31 (amended): such a read never raises "Must specify server_name": the scheme is
\* taken for the server, and rest is parsed as a URL; when it is one the call is
\* forwarded to that server with the parsed rest, when it is none a validation error
\* is raised and no session is called.
C31_SchemeReadTakenForServer ==
    ReadWithoutServer /\ SchemeIsServer(last.uri) =>
      /\ ~Raised("Must specify server_name")
      /\ IF IsNone(AnyUrl(SplitColon(last.uri)[2]))
         THEN Raised("ValidationError")
         ELSE /\ ForwardedTo(SplitColon(last.uri)[1])
              /\ last.sent_uri = Get(AnyUrl(SplitColon(last.uri)[2]))

C31_Witness ==
    /\ ReadWithoutServer
    /\ last.uri = <<"a", Colon>>
    /\ <<"a">> \in DOMAIN sessions
    /\ Raised("ValidationError")

CallOps == {"call_tool", "read_resource", "get_prompt"}

\* the call ended in one of the routing failures of the router
RoutingFailed ==
    /\ IsNone(last.target)
    /\ last.message \in {"Unknown tool", "Unknown prompt", "Unknown server", "has no tools",
                         "has no prompts", "not found in server",
                         "Must specify server_name"}

\* the server the request resolves to: the one named, else the one bound to the
\* name or named in front of the URI
Resolved ==
    IF ~IsNone(last.server_name) THEN last.server_name
    ELSE IF last.op = "call_tool" THEN Lookup(tool_to_server, last.name)
    ELSE IF last.op = "get_prompt" THEN Lookup(prompt_to_server, last.name)
    ELSE IF UnderServerName(last.uri) THEN Some(SplitColon(last.uri)[1])
    ELSE None

\* C33 (as stated): a call_tool, read_resource or get_prompt awaits a method of exactly
\* one session, that of the resolved server, once, when routing succeeds, and of no
\* session when routing fails (or breaks off in a KeyError).
C33_OneInvocationUnlessRoutingFails ==
    last.op \in CallOps =>
      IF RoutingFailed \/ Raised("KeyError") THEN last.invoked = <<>>
      ELSE /\ ~IsNone(Resolved)
           /\ Get(Resolved) \in DOMAIN sessions
           /\ last.invoked = <<sessions[Get(Resolved)]>>

\* C33 (amended): such a call awaits a method of at most one session at most once:
\* of exactly the session of the resolved server when the call gets as far as its
\* session call, and of none when it ends before: in a routing failure, in the
\* validation error of a read_resource whose URI to forward is no URL, or in the
\* KeyError of a call naming a server that has a session but no snapshot yet.
C33_AtMostOneInvocation ==
    last.op \in CallOps =>
      /\ Len(last.invoked) <= 1
      /\ IF RoutingFailed \/ Raised("ValidationError") \/ Raised("KeyError")
         THEN last.invoked = <<>>
         ELSE /\ ~IsNone(Resolved)
              /\ ForwardedTo(Get(Resolved))
              /\ last.invoked = <<sessions[Get(Resolved)]>>

C33_Witness ==
    /\ last.op = "get_prompt"
    /\ Cardinality(DOMAIN sessions) = 2
    /\ IsNone(last.server_name)
    /\ Len(last.invoked) = 1
    /\ last.invoked[1] = sessions[prompt_to_server[last.name]]

\* C34: in every state, those in the middle of connect_all included, every server
\* that is a value of tool_to_server or prompt_to_server is a key of sessions, so a
\* call that names no server and gets past the routing table finds its session and
\* never a KeyError; and once connect_all has returned on a fresh registry, every
\* name bound to a server is in the snapshot of that server for its kind.
C34_RoutingTablesNameSessions ==
    /\ \A n \in DOMAIN tool_to_server : tool_to_server[n] \in DOMAIN sessions
    /\ \A n \in DOMAIN prompt_to_server : prompt_to_server[n] \in DOMAIN sessions
    /\ last.op \in {"call_tool", "get_prompt"} /\ IsNone(last.server_name) =>
         /\ ~Raised("KeyError")
         /\ ~IsNone(last.target) => ForwardedTo(BoundTo(last.name))
    /\ Completed =>
         /\ \A n \in DOMAIN tool_to_server : AdvertisesTool(tool_to_server[n], n)
         /\ \A n \in DOMAIN prompt_to_server : AdvertisesPrompt(prompt_to_server[n], n)

C34_Witness ==
    /\ pc = "list_resources"
    /\ last.op = "call_tool"
    /\ IsNone(last.server_name)
    /\ server_name \notin CapKeys(capabilities)
    /\ ForwardedTo(server_name)

\* C35: once connect_all has returned, sessions and capabilities have the same keys:
\* a server has a session registered exactly when its snapshot is stored.
C35_SessionsAndSnapshotsSameKeys ==
    connect_result = "returned" => DOMAIN sessions = CapKeys(capabilities)

C35_Witness ==
    /\ connect_result = "returned"
    /\ Len(Configured) = 2
    /\ Cardinality(DOMAIN sessions) = 1
    /\ Cardinality(env.skipped) = 1
    /\ \E s \in DOMAIN sessions :
         /\ s \in CapKeys(capabilities)
         /\ IsNone(CapOf(capabilities, s).prompts)
         /\ <<s, "prompts">> \in env.failed

\* C36: in every state, those in which connect_all waits for an answer of a server
\* included, every server in sessions has a snapshot in capabilities, so a call_tool
\* or get_prompt that names a server ends in forwarding or in a routing error and
\* never in a KeyError.
C36_SessionsHaveSnapshots ==
    /\ \A s \in DOMAIN sessions : s \in CapKeys(capabilities)
    /\ last.op \in {"call_tool", "get_prompt"} /\ ~IsNone(last.server_name) =>
         ~Raised("KeyError")

\* the entries list_tools (list_prompts) returns in this state
ListedTools == list_tools(capabilities)
ListedPrompts == list_prompts(capabilities)

\* the last call named a server and a name that a listing of this state returns
\* together, as the name of an entry and the serverName of its meta
NamesListedEntry ==
    /\ ~IsNone(last.server_name)
    /\ \/ /\ last.op = "call_tool"
          /\ \E i \in 1..Len(ListedTools) :
               /\ ListedTools[i].name = last.name
               /\ ServerNameOf(ListedTools[i]) = Get(last.server_name)
       \/ /\ last.op = "get_prompt"
          /\ \E i \in 1..Len(ListedPrompts) :
               /\ ListedPrompts[i].name = last.name
               /\ ServerNameOf(ListedPrompts[i]) = Get(last.server_name)

\* C37: after connect_all has returned on a fresh registry, a call_tool (get_prompt)
\* that names the name of an entry of list_tools (list_prompts) and the server in the
\* serverName of that entry passes the validation and is forwarded to the session of
\* that server under that name, also when the name is bound to another server in the
\* routing table.
C37_ListedEntriesCallable ==
    Completed =>
      /\ \A i \in 1..Len(ListedTools) :
           call_tool(ListedTools[i].name, Some(ServerNameOf(ListedTools[i])))
             = Forward(ServerNameOf(ListedTools[i]), <<>>)
      /\ \A i \in 1..Len(ListedPrompts) :
           get_prompt(ListedPrompts[i].name, Some(ServerNameOf(ListedPrompts[i])))
             = Forward(ServerNameOf(ListedPrompts[i]), <<>>)
      /\ NamesListedEntry =>
           /\ ForwardedTo(Get(last.server_name))
           /\ last.sent_name = last.name

C37_Witness ==
    /\ Completed
    /\ last.op = "get_prompt"
    /\ NamesListedEntry
    /\ prompt_to_server[last.name] # Get(last.server_name)
    /\ last.handle = Some(sessions[Get(last.server_name)])

\* C38: no call_tool, read_resource or get_prompt awaits a method of a session that
\* was released: once the scope that owns the connections is left, a call does not
\* reach a session the exit stack has closed.
C38_ReleasedHandlesNotInvoked ==
    [][last' # last /\ last'.op \in CallOps =>
         \A i \in 1..Len(last'.invoked) : last'.invoked[i] \notin RangeOf(released)]_vars

\* how the request of call is routed in this state by a call that runs alone
RoutedAlone(call) ==
    IF call.op = "call_tool" THEN call_tool(call.name, call.server_name)
    ELSE IF call.op = "get_prompt" THEN get_prompt(call.name, call.server_name)
    ELSE read_resource(call.uri, call.server_name)

\* call went where RoutedAlone sends its request: to the same session with the same
\* name and URI, or into the same routing failure
AsRoutedAlone(call) ==
    LET route == RoutedAlone(call)
    IN  IF route.to = "forward"
        THEN /\ call.target = Some(route.server)
             /\ call.handle = Some(sessions[route.server])
             /\ call.invoked = <<sessions[route.server]>>
             /\ call.sent_uri = route.sent
             /\ call.sent_name = call.name
        ELSE /\ IsNone(call.target) /\ IsNone(call.handle)
             /\ call.invoked = <<>>
             /\ call.message = route.message
             /\ call.outcome = (IF route.to = "error" THEN "returned" ELSE "raised")
             /\ call.is_error = (route.to = "error")

\* C32: of calls started after connect_all has returned and interleaved in any way,
\* call_tool, read_resource and get_prompt mixed, each one is routed to the session,
\* or ends in the routing failure, that the same call would get running alone on
\* the registry: the calls waiting for their sessions and the calls that ended do not
\* change where a call goes.
C32_RoutedAsIfAlone ==
    /\ last.op \in CallOps => AsRoutedAlone(last)
    /\ \A i \in 1..Len(last.waiting) : AsRoutedAlone(last.waiting[i])

C32_Witness ==
    /\ Len(last.waiting) = 1
    /\ last.waiting[1].op = "get_prompt"
    /\ last.waiting[1].target # None
    /\ last.op = "read_resource"
    /\ last.response = "result"
    /\ last.target # last.waiting[1].target
    /\ AsRoutedAlone(last)

====
